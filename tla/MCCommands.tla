------------------------------- MODULE MCCommands ------------------------------
(***************************************************************************)
(* The commands of the chat clients on a small instance.  The two modules  *)
(* share no state, and each has parts that exercise it: part says which    *)
(* one a behaviour belongs to, and what that one leaves out.  The          *)
(* variables of the other module keep an initial value.                    *)
(*                                                                         *)
(*   every: one caller gives every command, with every answer and length;  *)
(*   shared: two callers share the mutexes of Kick and Twitch; fields:     *)
(*   titles and categories, one after the other; clear: /clear.            *)
(***************************************************************************)
EXTENDS ChatCommands, TLC

VARIABLE part

Searched(id, exact) == [id |-> id, exact |-> exact]
Lasting(amount, unit) == [amount |-> amount, unit |-> unit]

\* What a search may find: nobody, one or several, the broadcaster itself.
Searches ==
    {{}, {Searched("x", TRUE)}, {Searched("x", TRUE), Searched("y", TRUE)},
     {Searched("x", FALSE)}, {Searched("x", FALSE), Searched("y", FALSE)},
     {Searched("x", TRUE), Searched("y", FALSE)}, {Searched("self", TRUE)}}
Few == {{}, {Searched("x", TRUE)}, {Searched("x", FALSE), Searched("y", FALSE)}}

\* Both sides of every limit of Kick, 7 days, and of Twitch, 14 days.
Lengths ==
    {Lasting(0, "s"), Lasting(-1, "m"), Lasting(1, "s"), Lasting(60, "s"),
     Lasting(90, "s"), Lasting(604800, "s"), Lasting(604860, "s"),
     Lasting(1209600, "s"), Lasting(1209601, "s"), Lasting(10080, "m"),
     Lasting(10081, "m"), Lasting(20160, "m"), Lasting(20161, "m"),
     Lasting(168, "h"), Lasting(169, "h"), Lasting(336, "h"), Lasting(337, "h"),
     Lasting(1, "d"), Lasting(14, "d"), Lasting(15, "d"), Lasting(20000, "d")}

\* The instance: a gives commands for every platform and for one that is not
\* known, b for those that have a mutex; a day has two half seconds.
MCPlatformsOf == "a" :> (Platforms \cup {"other"}) @@ "b" :> {"kick", "twitch"}
MCTyped == {-1, 0, 1, 2, 3}

ASSUME CommandsAssumption == ConstantsOK /\ Clear!ConstantsOK

MCInit ==
    /\ Init /\ Clear!Init
    /\ part \in {"every", "shared", "fields", "clear"}
    /\ part = "clear" => twitch = [scope |-> TRUE, owner |-> TRUE]
    /\ part # "clear" => now = 2

\* The disjuncts of Next, by caller: a part asks for no command that it leaves out.
Gives(c) == \E p \in PlatformsOf[c], op \in Ops : Issue(c, p, op)
Works(c) == LockKick(c) \/ Request(c) \/ Refresh(c)
Ages == \E p \in Platforms : TokenAges(p)
First(c) == hist.commands[c] = 0 /\ Gives(c)

\* What the parts leave out, seen from the commands that are given.
Given(c, ops, platforms) ==
    hist'.commands[c] > 0 => cmd'[c].op \in ops /\ cmd'[c].platform \in platforms
FewFound(c) == cmd'[c].found \in Few

Every == First("a") \/ Works("a") \/ Ages

Shared ==
    /\ \/ \E c \in Callers : First(c) \/ Works(c)
       \/ Ages
    /\ \A c \in Callers : Given(c, {"ban", "send"}, {"kick", "twitch"}) /\ FewFound(c)

Fields ==
    /\ Gives("a") \/ Works("a") \/ Ages
    /\ Given("a", {"title", "category"}, {"kick", "youtube"}) /\ FewFound("a")
    /\ cmd'["a"].title \in {"", "t"}

MCNext ==
    \/ part = "every" /\ Every /\ UNCHANGED <<part, clearVars>>
    \/ part = "shared" /\ Shared /\ UNCHANGED <<part, clearVars>>
    \/ part = "fields" /\ Fields /\ UNCHANGED <<part, clearVars>>
    \/ part = "clear" /\ Clear!Next /\ UNCHANGED <<part, commandVars>>

MCSpec == MCInit /\ [][MCNext]_<<part, commandVars, clearVars>>

\* Two callers that share mutexes and tokens are both answered in the end, and
\* messages that keep arriving do not prolong a run of /clear.  No step of a
\* title's change loses the category.
CommandsGoOn ==
    /\ OtherFieldIsKept
    /\ (part = "shared" /\ Fairness) => EveryCommandAnswers
    /\ (part = "clear" /\ Clear!Fairness) => Clear!ClearEnds
=============================================================================
