---------------------------- MODULE GroupDispatch ---------------------------
(***************************************************************************)
(* Who answers a message of a group (group.rs, and the message handlers of *)
(* server.rs): processes append messages to the group's log, and those     *)
(* that noticed a message compete for the dispatch lock to have the agents *)
(* reply to it.                                                            *)
(*                                                                         *)
(* Two kinds of process dispatch.  A one-shot is an `omgb group send`, a   *)
(* POST .../messages or a POST .../agent/{name}/message: it appends its    *)
(* message and dispatches for it.  A chat is an `omgb group chat` REPL: it *)
(* dispatches for the lines typed into it and for what its timer finds.    *)
(*                                                                         *)
(* The log only grows here, and a message is known by its place in it.     *)
(* What the model answers is chosen freely: which agents are to reply,     *)
(* whether each does, and whom its reply mentions.                         *)
(***************************************************************************)
EXTENDS Naturals, Sequences, FiniteSets

CONSTANTS
    OneShots, Chats,
    Humans, Agents,
    Typing,         \* are lines typed into the chats?
    MaxMentions,    \* MENTION_LIMIT * 5
    MaxLog,         \* bound on the length of the log
    Nobody

Proc == OneShots \cup Chats
Names == Humans \cup Agents

ASSUME DispatchAssumption ==
    /\ OneShots \cap Chats = {}
    /\ Humans \cap Agents = {}
    /\ Nobody \notin Proc \cup Names
    /\ Typing \in BOOLEAN
    /\ MaxMentions \in Nat /\ MaxLog \in Nat

VARIABLES
    log,        \* messages.jsonl
    holder,     \* who has dispatch.lock
    pc,         \* where each process is
    me,         \* human_name of each chat
    seen,       \* `seen` of each process: the messages it has dealt with
    limit,      \* how much of the log the timer of each chat has loaded
    trigger,    \* the message each process dispatches for, 0 if none
    messages,   \* `messages` of each turn: its copy of the log
    preMainSeen,\* pre_main_seen of each turn
    replies,    \* agents the routing chose that have not been asked yet
    mentions    \* <<message, agent>> pairs of the mention round to go

turnVars == <<trigger, messages, preMainSeen, replies, mentions>>
vars == <<log, holder, pc, me, seen, limit, turnVars>>

(* re, via and by are history: the trigger a reply was dispatched for, the *)
(* message whose mention it answers, and the process that dispatched.      *)
Message == [kind : {"human", "agent"}, sender : Names, at : SUBSET Agents,
            re : Nat, via : Nat, by : Proc \cup {Nobody}]

(* The program counters at which a process holds the dispatch lock. *)
InTurn == {"locked", "route", "reply", "mention"}

PCs == {"off", "posted", "chat", "tick", "ready", "gone"} \cup InTurn

Types ==
    /\ log \in Seq(Message)
    /\ holder \in Proc \cup {Nobody}
    /\ pc \in [Proc -> PCs]
    /\ me \in [Proc -> Humans \cup {Nobody}]
    /\ seen \in [Proc -> SUBSET Nat]
    /\ limit \in [Proc -> Nat]
    /\ trigger \in [Proc -> Nat]
    /\ messages \in [Proc -> SUBSET Nat]
    /\ preMainSeen \in [Proc -> SUBSET Nat]
    /\ replies \in [Proc -> SUBSET Agents]
    /\ mentions \in [Proc -> SUBSET (Nat \X Agents)]

(* The kind of a message fits its sender. *)
KindsOK ==
    \A i \in DOMAIN log : log[i].kind = "agent" <=> log[i].sender \in Agents

(* The messages a process refers to exist. *)
RefsOK ==
    \A p \in Proc :
        /\ pc[p] \in InTurn \cup {"posted", "ready"} =>
               trigger[p] \in 1 .. Len(log)
        /\ limit[p] <= Len(log)

(* A REPL belongs to a human. *)
ChatsOK ==
    \A p \in Proc :
        /\ pc[p] \in {"chat", "tick"} => p \in Chats
        /\ p \in Chats /\ pc[p] \notin {"off", "gone"} => me[p] \in Humans

TypeOK == Types /\ KindsOK /\ RefsOK /\ ChatsOK

Init ==
    /\ log = << >>
    /\ holder = Nobody
    /\ pc = [p \in Proc |-> "off"]
    /\ me = [p \in Proc |-> Nobody]
    /\ seen = [p \in Proc |-> {}]
    /\ limit = [p \in Proc |-> 0]
    /\ trigger = [p \in Proc |-> 0]
    /\ messages = [p \in Proc |-> {}]
    /\ preMainSeen = [p \in Proc |-> {}]
    /\ replies = [p \in Proc |-> {}]
    /\ mentions = [p \in Proc |-> {}]

-----------------------------------------------------------------------------
(* add_message appends under a lock of the log file's own. *)
AddMessage(m) ==
    /\ Len(log) < MaxLog
    /\ log' = Append(log, m)

Posted(n, k, at) ==
    [kind |-> k, sender |-> n, at |-> at, re |-> 0, via |-> 0, by |-> Nobody]

Goto(p, there) == pc' = [pc EXCEPT ![p] = there]

All(s) == 1 .. Len(s)

-----------------------------------------------------------------------------
(* One-shots. *)

(* A bug: the kind of a posted message is taken from its payload. *)
PostHumanAnyKind(p, h) ==
    /\ p \in OneShots /\ pc[p] = "off"
    /\ \E k \in {"human", "agent"} : AddMessage(Posted(h, k, {}))
    /\ trigger' = [trigger EXCEPT ![p] = Len(log) + 1]
    /\ Goto(p, "posted")
    /\ UNCHANGED <<holder, me, seen, limit, messages, preMainSeen, replies,
                   mentions>>

(* A member posts: only kinds of humans are accepted, and a name that an   *)
(* agent has is refused.                                                   *)
PostHuman(p, h) ==
    /\ p \in OneShots /\ pc[p] = "off"
    /\ AddMessage(Posted(h, "human", {}))
    /\ trigger' = [trigger EXCEPT ![p] = Len(log) + 1]
    /\ Goto(p, "posted")
    /\ UNCHANGED <<holder, me, seen, limit, messages, preMainSeen, replies,
                   mentions>>

(* The server takes a message from a remote agent, whom it may mention. *)
PostAgent(p, a, at) ==
    /\ p \in OneShots /\ pc[p] = "off"
    /\ AddMessage(Posted(a, "agent", at \ {a}))
    /\ trigger' = [trigger EXCEPT ![p] = Len(log) + 1]
    /\ Goto(p, "posted")
    /\ UNCHANGED <<holder, me, seen, limit, messages, preMainSeen, replies,
                   mentions>>

(* dispatch_for_message: what is in the log now is not news. *)
SeedSeen(p) ==
    /\ pc[p] = "posted"
    /\ seen' = [seen EXCEPT ![p] = All(log)]
    /\ Goto(p, "ready")
    /\ UNCHANGED <<log, holder, me, limit, turnVars>>

-----------------------------------------------------------------------------
(* Chats. *)

ChatStart(p, h) ==
    /\ p \in Chats /\ pc[p] = "off"
    /\ me' = [me EXCEPT ![p] = h]
    /\ seen' = [seen EXCEPT ![p] = All(log)]
    /\ Goto(p, "chat")
    /\ UNCHANGED <<log, holder, limit, turnVars>>

(* A bug: the timer goes by the log it has loaded first. *)
TickOldLog(p) ==
    /\ pc[p] = "chat"
    /\ limit' = [limit EXCEPT ![p] = IF @ = 0 THEN Len(log) ELSE @]
    /\ Goto(p, "tick")
    /\ UNCHANGED <<log, holder, me, seen, turnVars>>

(* The timer loads the log. *)
Tick(p) ==
    /\ pc[p] = "chat"
    /\ limit' = [limit EXCEPT ![p] = Len(log)]
    /\ Goto(p, "tick")
    /\ UNCHANGED <<log, holder, me, seen, turnVars>>

New(p) == 1 .. limit[p] \ seen[p]

(* A bug: replies of agents are dispatched for as well. *)
TickNextAnyKind(p, i) ==
    /\ pc[p] = "tick"
    /\ i \in New(p)
    /\ \A j \in New(p) : i <= j
    /\ seen' = [seen EXCEPT ![p] = @ \cup {i}]
    /\ \/ /\ log[i].sender # me[p]
          /\ trigger' = [trigger EXCEPT ![p] = i]
          /\ Goto(p, "ready")
       \/ /\ log[i].sender = me[p]
          /\ UNCHANGED <<trigger, pc>>
    /\ UNCHANGED <<log, holder, me, limit, messages, preMainSeen, replies,
                   mentions>>

(* Its new messages are gone through in order; those of other humans are   *)
(* dispatched for.                                                         *)
TickNext(p, i) ==
    /\ pc[p] = "tick"
    /\ i \in New(p)
    /\ \A j \in New(p) : i <= j
    /\ seen' = [seen EXCEPT ![p] = @ \cup {i}]
    /\ \/ /\ log[i].kind = "human" /\ log[i].sender # me[p]
          /\ trigger' = [trigger EXCEPT ![p] = i]
          /\ Goto(p, "ready")
       \/ /\ log[i].kind = "agent" \/ log[i].sender = me[p]
          /\ UNCHANGED <<trigger, pc>>
    /\ UNCHANGED <<log, holder, me, limit, messages, preMainSeen, replies,
                   mentions>>

TickEnd(p) ==
    /\ pc[p] = "tick"
    /\ New(p) = {}
    /\ Goto(p, "chat")
    /\ UNCHANGED <<log, holder, me, seen, limit, turnVars>>

(* A line is typed. *)
Type(p) ==
    /\ Typing
    /\ pc[p] = "chat"
    /\ AddMessage(Posted(me[p], "human", {}))
    /\ seen' = [seen EXCEPT ![p] = @ \cup {Len(log) + 1}]
    /\ trigger' = [trigger EXCEPT ![p] = Len(log) + 1]
    /\ limit' = [limit EXCEPT ![p] = 0]
    /\ Goto(p, "ready")
    /\ UNCHANGED <<holder, me, messages, preMainSeen, replies, mentions>>

-----------------------------------------------------------------------------
(* dispatch_turn. *)

Forget(p, there) ==
    /\ Goto(p, there)
    /\ trigger' = [trigger EXCEPT ![p] = 0]
    /\ messages' = [messages EXCEPT ![p] = {}]
    /\ preMainSeen' = [preMainSeen EXCEPT ![p] = {}]
    /\ replies' = [replies EXCEPT ![p] = {}]
    /\ mentions' = [mentions EXCEPT ![p] = {}]

(* Back to the timer's messages (none when a line was typed), or the end   *)
(* of a one-shot.                                                          *)
Return(p) == Forget(p, IF p \in Chats THEN "tick" ELSE "gone")

(* try_lock_exclusive; a turn that finds it taken is silently given up. *)
TryLock(p) ==
    /\ pc[p] = "ready"
    /\ \/ /\ holder = Nobody
          /\ holder' = p
          /\ Goto(p, "locked")
          /\ UNCHANGED turnVars
       \/ /\ holder # Nobody
          /\ Return(p)
          /\ UNCHANGED holder
    /\ UNCHANGED <<log, me, seen, limit>>

Unlock(p) ==
    /\ Return(p)
    /\ holder' = Nobody
    /\ UNCHANGED <<log, me, limit>>

Answered(i) == \E j \in i + 1 .. Len(log) : log[j].kind = "agent"

(* A bug: the log is not looked at again once the lock is held. *)
CheckNothing(p) ==
    /\ pc[p] = "locked"
    /\ seen' = [seen EXCEPT ![p] = @ \cup {trigger[p]}]
    /\ messages' = [messages EXCEPT ![p] = All(log)]
    /\ preMainSeen' = [preMainSeen EXCEPT ![p] = seen'[p]]
    /\ Goto(p, "route")
    /\ UNCHANGED <<log, holder, me, limit, trigger, replies, mentions>>

(* The log is loaded again: a trigger that some agent message follows      *)
(* counts as answered.                                                     *)
Check(p) ==
    /\ pc[p] = "locked"
    /\ seen' = [seen EXCEPT ![p] = @ \cup {trigger[p]}]
    /\ \/ /\ ~Answered(trigger[p])
          /\ messages' = [messages EXCEPT ![p] = All(log)]
          /\ preMainSeen' = [preMainSeen EXCEPT ![p] = seen'[p]]
          /\ Goto(p, "route")
          /\ UNCHANGED <<log, holder, me, limit, trigger, replies, mentions>>
       \/ Answered(trigger[p]) /\ Unlock(p)

(* The routing prompt picks the agents that are to reply, never the sender. *)
Route(p, chosen) ==
    /\ pc[p] = "route"
    /\ replies' = [replies EXCEPT ![p] = chosen \ {log[trigger[p]].sender}]
    /\ Goto(p, "reply")
    /\ UNCHANGED <<log, holder, me, seen, limit, trigger, messages,
                   preMainSeen, mentions>>

RouteFails(p) ==
    /\ pc[p] = "route"
    /\ Unlock(p)
    /\ UNCHANGED seen

(* An agent writes a reply that mentions `at`. *)
Answer(p, a, at, from) ==
    /\ AddMessage([kind |-> "agent", sender |-> a, at |-> at \ {a},
                   re |-> trigger[p], via |-> from, by |-> p])
    /\ messages' = [messages EXCEPT ![p] = @ \cup {Len(log) + 1}]

(* An agent that fails, or says NO_REPLY, is passed over. *)
PassOver == UNCHANGED <<log, messages>>

Reply(p, a) ==
    /\ pc[p] = "reply"
    /\ a \in replies[p]
    /\ (\E at \in SUBSET Agents : Answer(p, a, at, 0)) \/ PassOver
    /\ replies' = [replies EXCEPT ![p] = @ \ {a}]
    /\ UNCHANGED <<holder, pc, me, seen, limit, trigger, preMainSeen,
                   mentions>>

(* A bug: every agent message of the copy is searched for mentions. *)
UnseenAny(p) == {i \in messages[p] : log[i].kind = "agent"}

(* The agent messages of the copy that the turn does not know of. *)
Unseen(p) ==
    {i \in messages[p] \ preMainSeen[p] : log[i].kind = "agent"}

(* For each mention pair (sender, agent), the latest message. *)
Targets(p) ==
    {t \in Unseen(p) \X Agents :
        /\ t[2] \in log[t[1]].at
        /\ \A j \in Unseen(p) :
               t[2] \in log[j].at /\ log[j].sender = log[t[1]].sender
               => j <= t[1]}

(* One round of mentions, of at most MaxMentions targets, those of the     *)
(* latest messages first.                                                  *)
CollectMentions(p, taken) ==
    /\ pc[p] = "reply"
    /\ replies[p] = {}
    /\ taken \subseteq Targets(p)
    /\ Cardinality(taken) <= MaxMentions
    /\ taken # Targets(p) => Cardinality(taken) = MaxMentions
    /\ \A t \in taken, u \in Targets(p) \ taken : u[1] <= t[1]
    /\ mentions' = [mentions EXCEPT ![p] = taken]
    /\ Goto(p, "mention")
    /\ UNCHANGED <<log, holder, me, seen, limit, trigger, messages,
                   preMainSeen, replies>>

MentionReply(p, t) ==
    /\ pc[p] = "mention"
    /\ t \in mentions[p]
    /\ \A u \in mentions[p] : u[1] <= t[1]
    /\ (\E at \in SUBSET Agents : Answer(p, t[2], at, t[1])) \/ PassOver
    /\ mentions' = [mentions EXCEPT ![p] = @ \ {t}]
    /\ UNCHANGED <<holder, pc, me, seen, limit, trigger, preMainSeen,
                   replies>>

(* The turn's own messages are marked as seen, and the lock is dropped. *)
FinishTurn(p) ==
    /\ pc[p] = "mention"
    /\ mentions[p] = {}
    /\ seen' = [seen EXCEPT ![p] = @ \cup
           {i \in messages[p] : log[i].by = p /\ log[i].re = trigger[p]}]
    /\ Unlock(p)

(* The process dies, or fails to write the log: what it has written stays, *)
(* its lock is dropped.                                                    *)
Die(p) ==
    /\ pc[p] \notin {"off", "gone"}
    /\ Forget(p, "gone")
    /\ holder' = IF holder = p THEN Nobody ELSE holder
    /\ me' = [me EXCEPT ![p] = Nobody]
    /\ seen' = [seen EXCEPT ![p] = {}]
    /\ limit' = [limit EXCEPT ![p] = 0]
    /\ UNCHANGED log

-----------------------------------------------------------------------------
TurnStep(p) ==
    \/ TryLock(p)
    \/ Check(p)
    \/ \E chosen \in SUBSET Agents : Route(p, chosen)
    \/ RouteFails(p)
    \/ \E a \in Agents : Reply(p, a)
    \/ \E taken \in SUBSET Targets(p) : CollectMentions(p, taken)
    \/ \E t \in mentions[p] : MentionReply(p, t)
    \/ FinishTurn(p)

ChatStep(p) ==
    \/ Tick(p)
    \/ \E i \in New(p) : TickNext(p, i)
    \/ TickEnd(p)

Next ==
    \E p \in Proc :
        \/ \E h \in Humans : PostHuman(p, h) \/ ChatStart(p, h)
        \/ \E a \in Agents, at \in SUBSET Agents : PostAgent(p, a, at)
        \/ SeedSeen(p)
        \/ ChatStep(p)
        \/ Type(p)
        \/ TurnStep(p)
        \/ Die(p)

Spec == Init /\ [][Next]_vars

(* A live process goes on: its model calls end, and its timer fires.       *)
Fairness == \A p \in Proc : WF_vars(ChatStep(p) \/ TurnStep(p))

FairSpec == Spec /\ Fairness

-----------------------------------------------------------------------------
(* The replies to a message all come from one turn, although the process   *)
(* that posted it and every chat that notices it dispatch for it, in any   *)
(* order and each after reading the log at a different time (dispatch_turn *)
(* takes the lock and then looks at the log again).                        *)
AnsweredOnce ==
    \A i, j \in DOMAIN log :
        log[i].re # 0 /\ log[i].re = log[j].re => log[i].by = log[j].by

(* A reply that a dispatch wrote is never dispatched for: agents do not    *)
(* keep each other talking ("without spawning reply loops").               *)
NoReplyLoop ==
    \A p \in Proc :
        pc[p] \in InTurn \cup {"ready"} => log[trigger[p]].re = 0

(* "Only consider messages produced in this turn so the same mention pair  *)
(* does not trigger repeatedly": the mention round answers a message that  *)
(* its own turn wrote, never one of another process or of an earlier turn. *)
MentionsOfThisTurn ==
    \A i \in DOMAIN log :
        log[i].via # 0 =>
            /\ log[log[i].via].re = log[i].re
            /\ log[log[i].via].by = log[i].by

(* A chat that stays up gets to every message of the log, however turns of *)
(* its own keep it busy while others write.                                *)
ChatCatchesUp ==
    \A p \in Chats, i \in 1 .. MaxLog :
        (pc[p] \notin {"off", "gone"} /\ i \in DOMAIN log)
        ~> (pc[p] = "gone" \/ i \in seen[p])
=============================================================================
