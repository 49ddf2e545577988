------------------------------ MODULE MCPayLedger ------------------------------
(* Instances of PayLedger for TLC. *)
EXTENDS PayLedger

\* One miner, archives published over a bucket that fails, one entry per period.
Publishing ==
    [Hotkeys |-> {"alice"}, Amounts |-> {3}, PeriodSeconds |-> 1, slack_s |-> 0, cap |-> 4,
     carry_periods |-> 0, carry_max_caps |-> 1,
     outage_fill |-> FALSE, outage_grace_s |-> 1, outage_max_s |-> 2,
     CATCHUP_ENTRIES |-> 1, OUTAGE_REFERENCE_PERIODS |-> 2, publishes |-> TRUE,
     ALIVE_EVERY_S |-> 100, DOWNTIME_MIN_S |-> 100, IngestLimit |-> 2, BanSeconds |-> 2,
     Kinds |-> {"trained"}, MaxTime |-> 3, MaxEvents |-> 3, MaxFaults |-> 2]

\* Two miners whose events are worth twice the cap and more, carried over two periods, with bans.
Carrying ==
    [Publishing EXCEPT !.Hotkeys = {"alice", "bob"}, !.Amounts = {7}, !.cap = 3,
       !.carry_periods = 2, !.CATCHUP_ENTRIES = 4, !.publishes = FALSE,
       !.Kinds = {"trained", "ban", "untrained"}, !.MaxTime = 4, !.MaxEvents = 3, !.MaxFaults = 0]

\* The trainer's outages paid, with the validator's own downtime taken off them.
Filling ==
    [Publishing EXCEPT !.Amounts = {4}, !.PeriodSeconds = 2, !.outage_fill = TRUE, !.outage_max_s = 3,
       !.CATCHUP_ENTRIES = 4, !.publishes = FALSE, !.ALIVE_EVERY_S = 1, !.DOWNTIME_MIN_S = 1,
       !.MaxTime = 5, !.MaxEvents = 2, !.MaxFaults = 1]

MCSetups == {Publishing, Carrying, Filling}
MCPublishing == {[Publishing EXCEPT !.MaxTime = 2, !.MaxEvents = 2]}
================================================================================
