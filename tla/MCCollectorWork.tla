------------------------- MODULE MCCollectorWork -------------------------
(* Small instances of CollectorWork for TLC. *)
EXTENDS CollectorWork, TLC

\* The pairs of two Resets and what they hold up, until the last day, or with
\* no refusals until its night; the first Reset's pair and its evidence, with
\* every kind of answer or with requests made again within a run; the first
\* Reset's settlement check.
MCFocuses ==
    LET held == [works |-> Resets \X {"pair"} \X Players, answers |-> {"good", "busy"},
                 attempts |-> 1, judged |-> FALSE, holds |-> TRUE,
                 until |-> 4 * LastReset - 3, events |-> 1]
        proved == [works |-> {1} \X {"pair"} \X Players, answers |-> Answers, attempts |-> 1,
                   judged |-> TRUE, holds |-> FALSE, until |-> 3, events |-> 1]
    IN  {held, [held EXCEPT !.answers = {"good"}, !.until = 4 * LastReset - 2],
         proved, [proved EXCEPT !.answers = {"good", "busy"}, !.attempts = 2],
         [works |-> {1} \X {"check"} \X Players, answers |-> {"good", "busy"}, attempts |-> 1,
          judged |-> FALSE, holds |-> FALSE, until |-> 3, events |-> 2]}
=============================================================================
