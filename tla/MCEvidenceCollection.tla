------------------------ MODULE MCEvidenceCollection ------------------------
(***************************************************************************)
(* Values of the constants of EvidenceCollection for TLC.                  *)
(***************************************************************************)
EXTENDS EvidenceCollection

\* Two facts and an optional read; the other arguments of "inventory" and
\* "sales" are out of scope, those of "terms" name another supplier.
MCTools    == {"inventory", "terms", "sales"}
MCArgs     == {"own", "other"}
MCInScope  == {<<"inventory", "own">>, <<"terms", "own">>, <<"terms", "other">>,
               <<"sales", "own">>}
MCManifest == <<"inventory", "terms">>
MCFacts    == {"inventory", "terms"}
MCOptional == {"sales"}
=============================================================================
