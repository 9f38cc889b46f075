-------------------------- MODULE MCOfficialSource --------------------------
(* An instance of OfficialSource for TLC. *)
EXTENDS OfficialSource

N(word) == <<word>>

\* The source is a blog about one award, named after it.
Blog == <<"chevening", "blog">>
MCSource == <<N("www"), Blog, N("com")>>

\* The blog's sibling host, an aggregator with every award's words in its name,
\* a host that shares three letters with an award, two public bodies, one of
\* them named after an award, two more hosts named so, and one nobody's.
Sibling == <<N("news"), Blog, N("com")>>
Aggregator == <<N("www"), <<"scholarship", "ads">>, N("com")>>
Era == <<N("era"), N("org")>>
Ministry == <<N("www"), N("dfat"), N("gov"), N("au")>>
Union == <<<<"era", "smus">>, N("europa"), N("eu")>>
Vanity == <<N("chevening"), N("org")>>
Longer == <<<<"turkiye", "burslari">>, N("gov"), N("tr")>>
Nobody == <<N("www"), N("com")>>

MCHosts == {MCSource, Sibling, Aggregator, Era, Ministry, Union, Vanity, Longer, Nobody}

MCTitles ==
  { {N("chevening"), N("scholarship")},
    {N("turkiye"), N("scholarship")},
    {<<"era", "smus">>, N("scholarship")},
    {N("scholarship")} }

MCGeneric == {N("scholarship")}
MCLabels == {N("www"), N("com"), N("org"), N("gov"), N("edu")}
MCBodyLabels == {N("gov"), N("edu")}
MCBodyTLDs == {N("edu"), N("gov")}
MCEuropa == <<N("europa"), N("eu")>>
MCShort == {N("era"), N("www"), N("com"), N("org"), N("gov"), N("eu"), N("au"), N("tr")}
MCStrangers == {Aggregator, Era}
MCOrganisations == {Blog}
=============================================================================
