---------------------------- MODULE MCOciDriver ----------------------------
(***************************************************************************)
(* Small instances of OciDriver: the option records of each run.           *)
(***************************************************************************)
EXTENDS OciDriverClaims, TLC

Symmetry == Permutations(Jobs) \union Permutations(Messages) \union Permutations(Polls)

Keep    == [kind |-> "undefined", value |-> 0]
Removed == [kind |-> "boolean", value |-> 1]

NoBackoff == [type |-> "undefined", delay |-> 0]
Fixed     == [type |-> "fixed", delay |-> 1]

(* Two attempts with a backoff; the message is deleted at the end.         *)
Twice == [attempts |-> 2, delay |-> FALSE, backoff |-> Fixed,
          removeOnComplete |-> Removed, removeOnFail |-> Removed]

(* One attempt after a delay.                                              *)
Once == [Twice EXCEPT !.attempts = 0, !.delay = TRUE, !.backoff = NoBackoff]

RemovedOptions == {Twice, Once}

TwiceOptions == {Twice}

(* A completed job is removed, a failed one is to be kept.                 *)
KeptOptions ==
  {[Twice EXCEPT !.removeOnFail = Keep, !.backoff = NoBackoff]}
=============================================================================
