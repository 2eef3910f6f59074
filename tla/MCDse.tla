-------------------------------- MODULE MCDse --------------------------------
(***************************************************************************)
(* Two knobs for DseSearch: a size the spec's storage reads and an enum the   *)
(* host's storage reads. The defaults break the allowance, as they may.       *)
(***************************************************************************)
EXTENDS DseSearch

MCKnobs ==
  [entries |-> [type |-> "int", range |-> 1..3, default |-> 3],
   ways |-> [type |-> "enum", range |-> 0..1, default |-> 0]]

MCWirings == {{"entries"}}

Header(entries, ways, code) ==
  [values |-> [entries |-> entries, ways |-> ways], code |-> code]

\* A candidate that fits, the same with another line, one that fits too, and one
\* that breaks the allowance.
MCProposals ==
  {Header(2, 0, "none"), Header(2, 0, "extra"), Header(1, 1, "none"), Header(3, 1, "none")}
=============================================================================
