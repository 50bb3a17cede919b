---------------------------- MODULE MCMultirepl ----------------------------
(* Instances of Multirepl for TLC. *)
EXTENDS Multirepl

\* Every class of character but "A", which only tells raw-paste mode apart.
MCChars == AllChars \ {"A"}

\* Enough to type commands of one or several lines, run them, and leave.
MCLineChars == {"x", "cr", "ctrlD"}
=============================================================================
