-------------------------------- MODULE Mutex --------------------------------
(***************************************************************************)
(* What a lock promises: one owner at a time, and the lock handed over in  *)
(* the order in which it was asked for.  A restart forgets everybody.      *)
(***************************************************************************)
EXTENDS Naturals, Sequences, SequencesExt

CONSTANTS
  Calls,   \* who may ask for the lock
  Nobody   \* the owner of a free lock

VARIABLES
  owner,   \* who has the lock
  line     \* who waits for it, in order

lockVars == <<owner, line>>

LockInit == owner = Nobody /\ line = <<>>

Ask(c) ==
  /\ c # owner /\ c \notin ToSet(line)
  /\ IF owner = Nobody THEN owner' = c /\ UNCHANGED line
                       ELSE line' = Append(line, c) /\ UNCHANGED owner

Yield(c) ==
  /\ owner = c
  /\ IF line = <<>> THEN owner' = Nobody /\ UNCHANGED line
                    ELSE owner' = Head(line) /\ line' = Tail(line)

Forget == owner' = Nobody /\ line' = <<>>

LockNext == (\E c \in Calls : Ask(c) \/ Yield(c)) \/ Forget

LockSpec == LockInit /\ [][LockNext]_lockVars
=============================================================================
