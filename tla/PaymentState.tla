---------------------------- MODULE PaymentState ----------------------------
(***************************************************************************)
(* The payment state machine of src/src/state.rs: which state may follow   *)
(* which, what transition and record_failure do to a record.  A record is  *)
(* any TLA+ record with the fields                                         *)
(*   state, failed_from, attempts, backoff                                 *)
(* where backoff says that next_attempt_at is still ahead of the clock.    *)
(***************************************************************************)
EXTENDS Naturals

CONSTANT None   \* Option::None

States == {"pending", "detected", "funded", "swept", "settled", "failed",
           "expired"}

CanTransition(from, to) ==
    <<from, to>> \in
       ({"pending"} \X {"detected", "expired", "failed"})
        \cup ({"detected"} \X {"funded", "failed"})
        \cup ({"funded"} \X {"swept", "failed"})
        \cup ({"swept"} \X {"settled", "failed"})
        \cup ({"failed"} \X {"detected", "funded", "swept"})
        \cup {<<"expired", "detected">>}

\* Mutant of ResumeOk: a failed record resumes anywhere.
ResumeAnywhere(rec, to) == TRUE

(* A failed record resumes the step it failed in, and no other. *)
ResumeOk(rec, to) ==
    \/ rec.state # "failed"
    \/ rec.failed_from = to
    \/ rec.failed_from = "pending" /\ to = "detected"

TransitionOk(rec, to) == CanTransition(rec.state, to) /\ ResumeOk(rec, to)

Transition(rec, to) ==
    [rec EXCEPT !.state = to, !.attempts = 0, !.backoff = FALSE,
                !.failed_from = IF to = "failed" THEN rec.state ELSE @]


(* record_failure: one more attempt and a backoff; at the limit the record  *)
(* fails, if its state can.                                                 *)
RecordFailure(rec, max) ==
    LET gives_up == /\ rec.attempts + 1 >= max
                    /\ CanTransition(rec.state, "failed")
    IN  [rec EXCEPT !.attempts = @ + 1, !.backoff = TRUE,
                    !.failed_from = IF gives_up THEN rec.state ELSE @,
                    !.state = IF gives_up THEN "failed" ELSE @]
=============================================================================
