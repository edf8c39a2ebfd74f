-------------------------- MODULE ProfileSelection --------------------------
(***************************************************************************)
(* What the profile manager promises, whatever stands in front of it: one  *)
(* profile is active at any time; it is the one the user commands, unless  *)
(* one is wished for that is stronger than a command, or else the strongest*)
(* of those wished for, or else the default; and the wishes change one at a*)
(* time.                                                                   *)
(***************************************************************************)
EXTENDS Integers

CONSTANTS Profiles, None, Balanced, Priority,
          OverridePriority   \* how strong a command is

VARIABLES commanded,  \* the profile the user commands, or None
          wished,     \* the profiles wished for
          active      \* the active profile
selectionVars == <<commanded, wished, active>>

Best(S) == IF S = {} THEN Balanced
           ELSE CHOOSE p \in S : \A q \in S : Priority[p] >= Priority[q]

\* The profile chosen when c is commanded and those in S are wished for.
Choice(c, S) ==
  IF c # None /\ \A p \in S : Priority[p] <= OverridePriority THEN c ELSE Best(S)

Init == commanded = None /\ wished = {} /\ active = Balanced

\* One wish comes, goes or takes the place of another.
WishesChange ==
  /\ \E gone, come \in SUBSET Profiles :
       /\ \A p, q \in gone : p = q
       /\ \A p, q \in come : p = q
       /\ wished' = (wished \ gone) \cup come
  /\ active' = Choice(commanded, wished')
  /\ UNCHANGED commanded

Command(p) ==
  /\ commanded' = p
  /\ active' = Choice(p, wished)
  /\ UNCHANGED wished

Release ==
  /\ commanded # None /\ commanded' = None
  /\ active' = Choice(None, wished)
  /\ UNCHANGED wished

Next == WishesChange \/ (\E p \in Profiles : Command(p)) \/ Release

Spec == Init /\ [][Next]_selectionVars
=============================================================================
