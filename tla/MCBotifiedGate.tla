-------------------------- MODULE MCBotifiedGate --------------------------
(***************************************************************************)
(* Two people, the first of whom is lost as track t1 and found again as    *)
(* t2.                                                                     *)
(***************************************************************************)
EXTENDS BotifiedGate

Event(id, kind, key, own) ==
    [id |-> id, kind |-> kind, key |-> key, own |-> own, pace |-> "slow"]

MCCatalogue ==
    { Event("e1", "approaching", "s1", {"t1"}),
      Event("e2", "waving", "s1", {"t2"}),
      Event("e3", "left", "s1", {"t2"}),
      Event("e4", "passing", "s2", {"t3"}) }
MCContexts == {[reacquired |-> {"t1", "t2"}, pace |-> "slow"],
               [reacquired |-> {}, pace |-> "fast"]}
=============================================================================
