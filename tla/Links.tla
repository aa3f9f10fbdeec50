---------------------------------- MODULE Links ----------------------------------
(***************************************************************************)
(* A direction of a network path as the sequence of packets under way,     *)
(* from the oldest on.  The network is not part of the repository.         *)
(***************************************************************************)
EXTENDS Integers, SequencesExt

\* The link after a packet m was put on the way, or lost; it is lost when cap are.
Transmit(link, cap, m) == {link} \cup IF Len(link) < cap THEN {Append(link, m)} ELSE {}

\* The packets that may come out next: any if one may overtake another.
Arriving(link, reorders) == IF reorders THEN DOMAIN link ELSE DOMAIN link \cap {1}
==================================================================================
