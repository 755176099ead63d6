------------------------------ MODULE MCAgent ------------------------------
(* Instances of Agent for TLC. *)
EXTENDS Agent

Msg(c, t, s) == [cmd |-> c, text |-> t, source |-> s]

\* One text, one unknown command: for the runs about history and liveness.
TurnMessages == {Msg("chat", "a", "telegram")}

\* Every command, from the sources that make a difference.
AllCommands ==
    {Msg(c, "a", "telegram") :
        c \in {"resume", "settings", "admin", "help", "stop", "start", "unknown"}}
    \cup {Msg("admin", "a", "channel"), Msg("admin_tool", "a", "channel"),
          Msg("chat", "a", "telegram"), Msg("chat", "b", "channel"),
          Msg("cron_trigger", "c", "cron")}
=============================================================================
