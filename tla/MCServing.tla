----------------------------- MODULE MCServing -----------------------------
(***************************************************************************)
(* Two processes and one engine: three commands that install, work, look   *)
(* and remove; serve next to a command that removes; and serve with two    *)
(* clients, whose requests fit, do not fit, or have a broken body.         *)
(***************************************************************************)
EXTENDS Serving

Ask(b, s, p, a) == [bad |-> b, stream |-> s, prompt |-> p, ask |-> a]
MCRequests == {Ask("no", TRUE, 1, 2), Ask("no", TRUE, 2, 2), Ask("no", FALSE, 1, 1),
               Ask("body", FALSE, 1, 1), Ask("head", FALSE, 1, 1)}

Budget(kinds, installed, commands, signals, upgrades, others, clients) ==
    [kinds |-> kinds, installed |-> installed, commands |-> commands,
     signals |-> signals, upgrades |-> upgrades, others |-> others, clients |-> clients]
MCBudgets ==
    {Budget({"install", "refresh", "uninstall"}, FALSE, 3, 1, 1, 0, 0),
     Budget({"run", "hub", "uninstall", "status"}, TRUE, 3, 1, 0, 1, 0),
     Budget({"serve", "uninstall", "refresh"}, TRUE, 2, 1, 0, 1, 0),
     Budget({"serve"}, TRUE, 1, 1, 0, 0, 2)}
=============================================================================
