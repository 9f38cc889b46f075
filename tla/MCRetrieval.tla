---------------------------- MODULE MCRetrieval ----------------------------
(* Instances of Retrieval for TLC. *)
EXTENDS Retrieval

CONSTANTS c1, c2, h1, h2, listed, provider, internal

TwoHosts == {h1, h2}
\* A redirect from the listed page to the provider's leaves its host.
MCHost == (listed :> h1) @@ (provider :> h2) @@ (internal :> h2)
MCClass == (listed :> "approved") @@ (provider :> "public") @@ (internal :> "private")

Setting(key, disabled, limit) == [key |-> key, disabled |-> disabled, limit |-> limit]

AllOn     == Setting(TRUE, {}, 1)
ReaderOff == Setting(TRUE, {JINA}, 0)
DirectOff == Setting(TRUE, {DIRECT_FETCH, JINA_SEARCH}, 1)

MCConfigs == {AllOn, ReaderOff, DirectOff}
MCChanges == {<<AllOn, DirectOff>>, <<DirectOff, ReaderOff>>, <<ReaderOff, AllOn>>}

=============================================================================
