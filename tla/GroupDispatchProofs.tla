------------------------ MODULE GroupDispatchProofs -------------------------
(***************************************************************************)
(* Proofs about GroupDispatch, for any number of processes, humans and     *)
(* agents and a log of any length.                                         *)
(***************************************************************************)
EXTENDS GroupDispatch, TLAPS

(* The log has grown by m. *)
GrownBy(m) ==
    /\ log' \in Seq(Message)
    /\ Len(log) \in Nat /\ Len(log') = Len(log) + 1
    /\ DOMAIN log = 1 .. Len(log) /\ DOMAIN log' = 1 .. Len(log) + 1
    /\ \A i \in DOMAIN log : log'[i] = log[i]
    /\ log'[Len(log) + 1] = m

(* Appending keeps what is there and adds m at the end. *)
LEMMA Appended ==
    ASSUME log \in Seq(Message), NEW m \in Message, log' = Append(log, m)
    PROVE  GrownBy(m)
    BY DEF GrownBy

(* A message that somebody posts. *)
Posts(n, k, m) ==
    /\ m \in Message
    /\ m.kind = k /\ m.sender = n /\ m.re = 0 /\ m.via = 0
    /\ GrownBy(m)

(* add_message of a posted message adds a message that is no reply. *)
LEMMA PostGrows ==
    ASSUME log \in Seq(Message), NEW n \in Names, NEW k \in {"human", "agent"},
           NEW at \in SUBSET Agents, AddMessage(Posted(n, k, at))
    PROVE  \E m : Posts(n, k, m)
<1>1. Posted(n, k, at) \in Message
    BY DEF Posted, Message
<1>2. GrownBy(Posted(n, k, at))
    BY <1>1, Appended DEF AddMessage
<1>3. Posts(n, k, Posted(n, k, at))
    BY <1>1, <1>2 DEF Posts, Posted
<1> QED
    BY <1>3

(* The three ways to post; here, by a one-shot for a human. *)
LEMMA HumanPosts ==
    ASSUME Types, NEW p \in Proc, NEW h \in Humans, PostHuman(p, h)
    PROVE  \E m : Posts(h, "human", m)
<1>1. AddMessage(Posted(h, "human", {})) /\ {} \in SUBSET Agents
    BY DEF PostHuman
<1> QED
    BY <1>1, PostGrows DEF Types, Names

(* The server posts for a remote agent. *)
LEMMA AgentPosts ==
    ASSUME Types, NEW p \in Proc, NEW a \in Agents, NEW at \in SUBSET Agents,
           PostAgent(p, a, at)
    PROVE  \E m : Posts(a, "agent", m)
<1>1. at \ {a} \in SUBSET Agents
    OBVIOUS
<1>2. AddMessage(Posted(a, "agent", at \ {a}))
    BY DEF PostAgent
<1> QED
    BY <1>1, <1>2, PostGrows DEF Types, Names

(* A typed line is posted by the human whose chat it is. *)
LEMMA ChatPosts ==
    ASSUME Types, ChatsOK, NEW p \in Proc, Type(p)
    PROVE  me[p] \in Humans /\ \E m : Posts(me[p], "human", m)
<1>1. me[p] \in Humans
    BY DEF ChatsOK, Type
<1>2. AddMessage(Posted(me[p], "human", {})) /\ {} \in SUBSET Agents
    BY DEF Type
<1> QED
    BY <1>1, <1>2, PostGrows DEF Types, Names

(* A reply that a turn writes. *)
Answers(p, a, m) ==
    /\ m \in Message
    /\ m.kind = "agent" /\ m.sender = a /\ m.re = trigger[p] /\ m.by = p
    /\ GrownBy(m)
    /\ messages' = [messages EXCEPT ![p] = @ \cup {Len(log) + 1}]

(* An agent's answer adds a reply to the trigger of the turn. *)
LEMMA AnswerGrows ==
    ASSUME Types, NEW p \in Proc, NEW a \in Agents, NEW at \in SUBSET Agents,
           NEW from \in Nat, Answer(p, a, at, from)
    PROVE  \E m : Answers(p, a, m)
<1> DEFINE m == [kind |-> "agent", sender |-> a, at |-> at \ {a},
                 re |-> trigger[p], via |-> from, by |-> p]
<1>1. m \in Message
    BY DEF Message, Types, Names, Proc
<1>2. log' = Append(log, m)
    BY DEF Answer, AddMessage
<1>3. GrownBy(m)
    BY <1>1, <1>2, Appended DEF Types
<1>4. messages' = [messages EXCEPT ![p] = @ \cup {Len(log) + 1}]
    BY DEF Answer
<1> QED
    BY <1>1, <1>3, <1>4 DEF Answers

(* What a reply and a reply to a mention do to the log: they add an answer *)
(* or leave it.                                                            *)
LEMMA ReplyGrows ==
    ASSUME Types, NEW p \in Proc, NEW a \in Agents, Reply(p, a)
    PROVE  UNCHANGED <<log, messages>> \/ \E m : Answers(p, a, m)
    BY AnswerGrows DEF Reply, PassOver

(* So does the answer to a mention, unless the agent is passed over. *)
LEMMA MentionReplyGrows ==
    ASSUME Types, NEW p \in Proc, NEW t \in mentions[p], MentionReply(p, t)
    PROVE  UNCHANGED <<log, messages>> \/ \E m : Answers(p, t[2], m)
<1>1. t[1] \in Nat /\ t[2] \in Agents
    BY DEF Types
<1> QED
    BY <1>1, AnswerGrows DEF MentionReply, PassOver

(* Leaving a turn resets what belongs to it. *)
LEMMA ReturnTypes ==
    ASSUME Types, NEW p \in Proc, Return(p)
    PROVE  /\ pc' \in [Proc -> PCs]
           /\ trigger' \in [Proc -> Nat]
           /\ messages' \in [Proc -> SUBSET Nat]
           /\ preMainSeen' \in [Proc -> SUBSET Nat]
           /\ replies' \in [Proc -> SUBSET Agents]
           /\ mentions' \in [Proc -> SUBSET (Nat \X Agents)]
<1>1. pc' \in [Proc -> PCs]
    BY DEF Types, Return, Forget, Goto, PCs
<1>2. trigger' \in [Proc -> Nat]
    BY DEF Types, Return, Forget
<1>3. /\ messages' \in [Proc -> SUBSET Nat]
      /\ preMainSeen' \in [Proc -> SUBSET Nat]
    BY DEF Types, Return, Forget
<1>4. replies' \in [Proc -> SUBSET Agents]
    BY DEF Types, Return, Forget
<1>5. mentions' \in [Proc -> SUBSET (Nat \X Agents)]
    BY DEF Types, Return, Forget
<1> QED
    BY <1>1, <1>2, <1>3, <1>4, <1>5

(* A process is in a turn exactly while it has the dispatch lock. *)
LockOwned == \A p \in Proc : pc[p] \in InTurn <=> holder = p

(* A dispatched reply is an agent's, and comes after its trigger. *)
RepliesFollow ==
    \A i \in DOMAIN log :
        log[i].re # 0 => log[i].kind = "agent" /\ log[i].re < i

(* Once a turn is past its check, nobody else has answered its trigger.    *)
(* This is what AnsweredOnce lacks to be inductive: it is established by   *)
(* reading the log while the lock is held, and the lock keeps it.          *)
TurnIsAlone ==
    \A p \in Proc :
        pc[p] \in InTurn \ {"locked"} =>
            \A i \in DOMAIN log : log[i].re = trigger[p] => log[i].by = p

(* Nobody is about to dispatch for a dispatched reply. *)
TriggersPosted ==
    \A p \in Proc :
        pc[p] \in InTurn \cup {"posted", "ready"} => log[trigger[p]].re = 0

-----------------------------------------------------------------------------
(* One more message keeps what holds of every message. *)
LEMMA KindsGrow ==
    ASSUME KindsOK, NEW m, GrownBy(m), m.kind = "agent" <=> m.sender \in Agents
    PROVE  KindsOK'
<1> SUFFICES ASSUME NEW i \in DOMAIN log'
             PROVE  log'[i].kind = "agent" <=> log'[i].sender \in Agents
    BY DEF KindsOK
<1>1. i \in DOMAIN log \/ i = Len(log) + 1
    BY DEF GrownBy
<1>2. CASE i \in DOMAIN log
    BY <1>2 DEF GrownBy, KindsOK
<1>3. CASE i = Len(log) + 1
    BY <1>3 DEF GrownBy
<1> QED
    BY <1>1, <1>2, <1>3

(* A new message keeps replies behind their triggers if it is one itself. *)
LEMMA FollowGrow ==
    ASSUME RepliesFollow, NEW m, GrownBy(m),
           m.re # 0 => m.kind = "agent" /\ m.re \in 1 .. Len(log)
    PROVE  RepliesFollow'
<1> SUFFICES ASSUME NEW i \in DOMAIN log', log'[i].re # 0
             PROVE  log'[i].kind = "agent" /\ log'[i].re < i
    BY DEF RepliesFollow
<1>1. i \in DOMAIN log \/ i = Len(log) + 1
    BY DEF GrownBy
<1>2. CASE i \in DOMAIN log
    BY <1>2 DEF GrownBy, RepliesFollow
<1>3. CASE i = Len(log) + 1
    BY <1>3 DEF GrownBy
<1> QED
    BY <1>1, <1>2, <1>3

(* A turn that is past its check stays alone with its trigger when a       *)
(* message is added that is not a reply, or that is its own.               *)
LEMMA AloneGrow ==
    ASSUME NEW p, NEW t, NEW m, GrownBy(m), m.re = t => m.by = p,
           \A i \in DOMAIN log : log[i].re = t => log[i].by = p
    PROVE  \A i \in DOMAIN log' : log'[i].re = t => log'[i].by = p
<1> SUFFICES ASSUME NEW i \in DOMAIN log', log'[i].re = t
             PROVE  log'[i].by = p
    OBVIOUS
<1>1. i \in DOMAIN log \/ i = Len(log) + 1
    BY DEF GrownBy
<1>2. CASE i \in DOMAIN log
    BY <1>2 DEF GrownBy
<1>3. CASE i = Len(log) + 1
    BY <1>3 DEF GrownBy
<1> QED
    BY <1>1, <1>2, <1>3

-----------------------------------------------------------------------------
(* Types are kept. *)
LEMMA TypesStep ==
    ASSUME TypeOK, [Next]_vars
    PROVE  Types'
<1> USE DispatchAssumption DEF Proc, Names
<1>1. ASSUME NEW p \in Proc, NEW h \in Humans, PostHuman(p, h)
     PROVE  Types'
    <2>1. PICK m : Posts(h, "human", m)
        BY <1>1, HumanPosts DEF TypeOK
    <2> QED
        BY <1>1, <2>1
        DEF Posts, GrownBy, PostHuman, Goto, turnVars, TypeOK, Types, InTurn,
            PCs
<1>2. ASSUME NEW p \in Proc, NEW h \in Humans, ChatStart(p, h)
     PROVE  Types'
    BY <1>2 DEF ChatStart, Goto, All, turnVars, TypeOK, Types, InTurn, PCs
<1>3. ASSUME NEW p \in Proc, NEW a \in Agents, NEW at \in SUBSET Agents,
           PostAgent(p, a, at)
     PROVE  Types'
    <2>1. PICK m : Posts(a, "agent", m)
        BY <1>3, AgentPosts DEF TypeOK
    <2> QED
        BY <1>3, <2>1
        DEF Posts, GrownBy, PostAgent, Goto, turnVars, TypeOK, Types, InTurn,
            PCs
<1>4. ASSUME NEW p \in Proc, SeedSeen(p)
     PROVE  Types'
    BY <1>4 DEF SeedSeen, Goto, All, turnVars, TypeOK, Types, InTurn, PCs
<1>5. ASSUME NEW p \in Proc, Tick(p)
     PROVE  Types'
    BY <1>5 DEF Tick, Goto, turnVars, TypeOK, Types, InTurn, PCs
<1>6. ASSUME NEW p \in Proc, NEW i \in New(p), TickNext(p, i)
     PROVE  Types'
    <2>1. i \in Nat
        BY <1>6 DEF New, TypeOK, Types, InTurn, PCs
    <2>2. CASE UNCHANGED <<trigger, pc>>
        BY <1>6, <2>1, <2>2 DEF TickNext, turnVars, TypeOK, Types, InTurn, PCs
    <2>3. CASE trigger' = [trigger EXCEPT ![p] = i] /\ Goto(p, "ready")
        BY <1>6, <2>1, <2>3
        DEF TickNext, Goto, turnVars, TypeOK, Types, InTurn, PCs
    <2> QED
        BY <1>6, <2>2, <2>3 DEF TickNext
<1>7. ASSUME NEW p \in Proc, TickEnd(p)
     PROVE  Types'
    BY <1>7 DEF TickEnd, Goto, turnVars, TypeOK, Types, InTurn, PCs
<1>8. ASSUME NEW p \in Proc, Type(p)
     PROVE  Types'
    <2>1. PICK m : Posts(me[p], "human", m)
        BY <1>8, ChatPosts DEF TypeOK
    <2> QED
        BY <1>8, <2>1
        DEF Posts, GrownBy, Type, Goto, turnVars, TypeOK, Types, InTurn, PCs
<1>9. ASSUME NEW p \in Proc, TryLock(p)
     PROVE  Types'
    <2>1. CASE holder = Nobody
        BY <1>9, <2>1 DEF TryLock, Goto, turnVars, TypeOK, Types, InTurn, PCs
    <2>2. CASE holder # Nobody
        BY <1>9, <2>2, ReturnTypes DEF TryLock, TypeOK, Types, InTurn, PCs
    <2> QED
        BY <2>1, <2>2
<1>10. ASSUME NEW p \in Proc, Check(p)
     PROVE  Types'
    <2>1. seen' \in [Proc -> SUBSET Nat]
        BY <1>10 DEF Check, TypeOK, Types, InTurn, PCs
    <2>2. CASE ~Answered(trigger[p])
      <3>0. 1 .. Len(log) \in SUBSET Nat
          BY DEF TypeOK, Types, InTurn, PCs
      <3>1. messages' \in [Proc -> SUBSET Nat]
          BY <1>10, <2>2, <3>0
          DEF Check, Unlock, All, TypeOK, Types, InTurn, PCs
      <3>2. preMainSeen' \in [Proc -> SUBSET Nat]
          BY <1>10, <2>1, <2>2 DEF Check, Unlock, TypeOK, Types, InTurn, PCs
      <3> QED
          BY <1>10, <2>1, <2>2, <3>1, <3>2
          DEF Check, Goto, TypeOK, Types, InTurn, PCs
    <2>3. CASE Answered(trigger[p])
        BY <1>10, <2>1, <2>3, ReturnTypes
        DEF Check, Unlock, TypeOK, Types, InTurn, PCs
    <2> QED
        BY <2>2, <2>3
<1>11. ASSUME NEW p \in Proc, NEW chosen \in SUBSET Agents, Route(p, chosen)
     PROVE  Types'
    BY <1>11 DEF Route, Goto, turnVars, TypeOK, Types, InTurn, PCs
<1>12. ASSUME NEW p \in Proc, RouteFails(p)
     PROVE  Types'
    BY <1>12
    DEF RouteFails, Unlock, Return, Forget, Goto, turnVars, TypeOK, Types,
        InTurn, PCs
<1>13. ASSUME NEW p \in Proc, NEW a \in Agents, Reply(p, a)
     PROVE  Types'
    <2>1. a \in Agents
        BY <1>13 DEF Types, TypeOK
    <2>2. CASE UNCHANGED <<log, messages>>
        BY <1>13, <2>2 DEF Reply, turnVars, TypeOK, Types, InTurn, PCs
    <2>3. ASSUME NEW m, Answers(p, a, m) PROVE Types'
        BY <1>13, <2>1, <2>3
        DEF Answers, GrownBy, Reply, turnVars, TypeOK, Types, InTurn, PCs
    <2> QED
        BY <1>13, <2>2, <2>3, ReplyGrows DEF TypeOK
<1>14. ASSUME NEW p \in Proc, NEW taken \in SUBSET Targets(p),
           CollectMentions(p, taken)
     PROVE  Types'
    BY <1>14
    DEF CollectMentions, Targets, Unseen, Goto, turnVars, TypeOK, Types,
        InTurn, PCs
<1>15. ASSUME NEW p \in Proc, NEW t \in mentions[p], MentionReply(p, t)
     PROVE  Types'
    <2>1. t[2] \in Agents
        BY <1>15 DEF Types, TypeOK
    <2>2. CASE UNCHANGED <<log, messages>>
        BY <1>15, <2>2 DEF MentionReply, turnVars, TypeOK, Types, InTurn, PCs
    <2>3. ASSUME NEW m, Answers(p, t[2], m) PROVE Types'
        BY <1>15, <2>1, <2>3
        DEF Answers, GrownBy, MentionReply, turnVars, TypeOK, Types, InTurn,
            PCs
    <2> QED
        BY <1>15, <2>2, <2>3, MentionReplyGrows DEF TypeOK
<1>16. ASSUME NEW p \in Proc, FinishTurn(p)
     PROVE  Types'
    BY <1>16
    DEF FinishTurn, Unlock, Return, Forget, Goto, turnVars, TypeOK, Types,
        InTurn, PCs
<1>17. ASSUME NEW p \in Proc, Die(p)
     PROVE  Types'
    BY <1>17 DEF Die, Forget, Goto, turnVars, TypeOK, Types, InTurn, PCs
<1>18. CASE UNCHANGED vars
    BY <1>18 DEF vars, turnVars, TypeOK, Types, InTurn, PCs
<1> QED
    BY <1>1, <1>2, <1>3, <1>4, <1>5, <1>6, <1>7, <1>8, <1>9, <1>10, <1>11,
       <1>12, <1>13, <1>14, <1>15, <1>16, <1>17, <1>18
    DEF Next, ChatStep, TurnStep

(* What a step does to the log: nothing, or it adds one message, posted by  *)
(* somebody or written by a turn that is past its check.                    *)
LogPosted ==
    \E n \in Names, k \in {"human", "agent"} : \E m :
        Posts(n, k, m) /\ (k = "agent" <=> n \in Agents)

LogAnswered ==
    \E p \in Proc, a \in Agents : \E m :
        Answers(p, a, m) /\ pc[p] \in InTurn \ {"locked"}

(* Every step leaves the log alone or adds one message to it. *)
LEMMA LogStep ==
    ASSUME TypeOK, [Next]_vars
    PROVE  UNCHANGED log \/ LogPosted \/ LogAnswered
<1> USE DispatchAssumption
<1>1. ASSUME NEW p \in Proc, NEW h \in Humans, PostHuman(p, h)
     PROVE  LogPosted
    BY <1>1, HumanPosts DEF LogPosted, Names, TypeOK
<1>2. ASSUME NEW p \in Proc, NEW h \in Humans, ChatStart(p, h)
     PROVE  UNCHANGED log
    BY <1>2 DEF ChatStart
<1>3. ASSUME NEW p \in Proc, NEW a \in Agents, NEW at \in SUBSET Agents,
             PostAgent(p, a, at)
     PROVE  LogPosted
    BY <1>3, AgentPosts DEF LogPosted, Names, TypeOK
<1>4. ASSUME NEW p \in Proc, SeedSeen(p)
     PROVE  UNCHANGED log
    BY <1>4 DEF SeedSeen
<1>5. ASSUME NEW p \in Proc, Tick(p)
     PROVE  UNCHANGED log
    BY <1>5 DEF Tick
<1>6. ASSUME NEW p \in Proc, NEW i \in New(p), TickNext(p, i)
     PROVE  UNCHANGED log
    BY <1>6 DEF TickNext
<1>7. ASSUME NEW p \in Proc, TickEnd(p)
     PROVE  UNCHANGED log
    BY <1>7 DEF TickEnd
<1>8. ASSUME NEW p \in Proc, Type(p)
     PROVE  LogPosted
    BY <1>8, ChatPosts DEF LogPosted, Names, TypeOK
<1>9. ASSUME NEW p \in Proc, TryLock(p)
     PROVE  UNCHANGED log
    BY <1>9 DEF TryLock
<1>10. ASSUME NEW p \in Proc, Check(p)
     PROVE  UNCHANGED log
    BY <1>10 DEF Check, Unlock
<1>11. ASSUME NEW p \in Proc, NEW chosen \in SUBSET Agents, Route(p, chosen)
     PROVE  UNCHANGED log
    BY <1>11 DEF Route
<1>12. ASSUME NEW p \in Proc, RouteFails(p)
     PROVE  UNCHANGED log
    BY <1>12 DEF RouteFails, Unlock
<1>13. ASSUME NEW p \in Proc, NEW a \in Agents, Reply(p, a)
     PROVE  UNCHANGED log \/ LogAnswered
    BY <1>13, ReplyGrows DEF Reply, LogAnswered, InTurn, PCs, TypeOK
<1>14. ASSUME NEW p \in Proc, NEW taken \in SUBSET Targets(p),
             CollectMentions(p, taken)
     PROVE  UNCHANGED log
    BY <1>14 DEF CollectMentions
<1>15. ASSUME NEW p \in Proc, NEW t \in mentions[p], MentionReply(p, t)
     PROVE  UNCHANGED log \/ LogAnswered
  <2>1. t[2] \in Agents
      BY <1>15 DEF TypeOK, Types
  <2>2. pc[p] \in InTurn \ {"locked"}
      BY <1>15 DEF MentionReply, InTurn
  <2> QED
      BY <1>15, <2>1, <2>2, MentionReplyGrows DEF LogAnswered, TypeOK
<1>16. ASSUME NEW p \in Proc, FinishTurn(p)
     PROVE  UNCHANGED log
    BY <1>16 DEF FinishTurn, Unlock
<1>17. ASSUME NEW p \in Proc, Die(p)
     PROVE  UNCHANGED log
    BY <1>17 DEF Die
<1> QED
    BY <1>1, <1>2, <1>3, <1>4, <1>5, <1>6, <1>7, <1>8, <1>9, <1>10, <1>11,
       <1>12, <1>13, <1>14, <1>15, <1>16, <1>17
    DEF Next, ChatStep, TurnStep, vars

(* The kind of a message is kept in step with its sender. *)
LEMMA KindsStep ==
    ASSUME TypeOK, [Next]_vars
    PROVE  KindsOK'
<1>1. CASE UNCHANGED log
    BY <1>1 DEF TypeOK, KindsOK
<1>2. CASE LogPosted
    BY <1>2, KindsGrow DEF LogPosted, Posts, TypeOK
<1>3. CASE LogAnswered
    BY <1>3, KindsGrow DEF LogAnswered, Answers, TypeOK
<1> QED
    BY <1>1, <1>2, <1>3, LogStep

(* What processes refer to stays in the log. *)
LEMMA RefsStep ==
    ASSUME TypeOK, Types', [Next]_vars
    PROVE  RefsOK'
<1> USE DispatchAssumption DEF Proc, Names
<1>1. ASSUME NEW p \in Proc, NEW h \in Humans, PostHuman(p, h)
     PROVE  RefsOK'
    <2>1. PICK m : Posts(h, "human", m)
        BY <1>1, HumanPosts DEF TypeOK
    <2> QED
        BY <1>1, <2>1
        DEF Posts, GrownBy, PostHuman, Goto, turnVars, TypeOK, Types, RefsOK,
            InTurn, PCs
<1>2. ASSUME NEW p \in Proc, NEW h \in Humans, ChatStart(p, h)
     PROVE  RefsOK'
    BY <1>2
    DEF ChatStart, Goto, All, turnVars, TypeOK, Types, RefsOK, InTurn, PCs
<1>3. ASSUME NEW p \in Proc, NEW a \in Agents, NEW at \in SUBSET Agents,
           PostAgent(p, a, at)
     PROVE  RefsOK'
    <2>1. PICK m : Posts(a, "agent", m)
        BY <1>3, AgentPosts DEF TypeOK
    <2> QED
        BY <1>3, <2>1
        DEF Posts, GrownBy, PostAgent, Goto, turnVars, TypeOK, Types, RefsOK,
            InTurn, PCs
<1>4. ASSUME NEW p \in Proc, SeedSeen(p)
     PROVE  RefsOK'
    BY <1>4
    DEF SeedSeen, Goto, All, turnVars, TypeOK, Types, RefsOK, InTurn, PCs
<1>5. ASSUME NEW p \in Proc, Tick(p)
     PROVE  RefsOK'
    BY <1>5 DEF Tick, Goto, turnVars, TypeOK, Types, RefsOK, InTurn, PCs
<1>6. ASSUME NEW p \in Proc, NEW i \in New(p), TickNext(p, i)
     PROVE  RefsOK'
    BY <1>6
    DEF TickNext, New, Goto, turnVars, TypeOK, Types, RefsOK, InTurn, PCs
<1>7. ASSUME NEW p \in Proc, TickEnd(p)
     PROVE  RefsOK'
    BY <1>7 DEF TickEnd, Goto, turnVars, TypeOK, Types, RefsOK, InTurn, PCs
<1>8. ASSUME NEW p \in Proc, Type(p)
     PROVE  RefsOK'
    <2>1. PICK m : Posts(me[p], "human", m)
        BY <1>8, ChatPosts DEF TypeOK
    <2> QED
        BY <1>8, <2>1
        DEF Posts, GrownBy, Type, Goto, turnVars, TypeOK, Types, RefsOK,
            InTurn, PCs
<1>9. ASSUME NEW p \in Proc, TryLock(p)
     PROVE  RefsOK'
    BY <1>9
    DEF TryLock, Return, Forget, Goto, turnVars, TypeOK, Types, RefsOK,
        InTurn, PCs
<1>10. ASSUME NEW p \in Proc, Check(p)
     PROVE  RefsOK'
    BY <1>10
    DEF Check, Unlock, Return, Forget, Goto, Answered, All, turnVars, TypeOK,
        Types, RefsOK, InTurn, PCs
<1>11. ASSUME NEW p \in Proc, NEW chosen \in SUBSET Agents, Route(p, chosen)
     PROVE  RefsOK'
    BY <1>11 DEF Route, Goto, turnVars, TypeOK, Types, RefsOK, InTurn, PCs
<1>12. ASSUME NEW p \in Proc, RouteFails(p)
     PROVE  RefsOK'
    BY <1>12
    DEF RouteFails, Unlock, Return, Forget, Goto, turnVars, TypeOK, Types,
        RefsOK, InTurn, PCs
<1>13. ASSUME NEW p \in Proc, NEW a \in Agents, Reply(p, a)
     PROVE  RefsOK'
    <2>1. a \in Agents
        BY <1>13 DEF Types, TypeOK
    <2>2. CASE UNCHANGED <<log, messages>>
        BY <1>13, <2>2 DEF Reply, turnVars, TypeOK, Types, RefsOK, InTurn, PCs
    <2>3. ASSUME NEW m, Answers(p, a, m) PROVE RefsOK'
        BY <1>13, <2>1, <2>3
        DEF Answers, GrownBy, Reply, turnVars, TypeOK, Types, RefsOK, InTurn,
            PCs
    <2> QED
        BY <1>13, <2>2, <2>3, ReplyGrows DEF TypeOK
<1>14. ASSUME NEW p \in Proc, NEW taken \in SUBSET Targets(p),
           CollectMentions(p, taken)
     PROVE  RefsOK'
    BY <1>14
    DEF CollectMentions, Targets, Unseen, Goto, turnVars, TypeOK, Types,
        RefsOK, InTurn, PCs
<1>15. ASSUME NEW p \in Proc, NEW t \in mentions[p], MentionReply(p, t)
     PROVE  RefsOK'
    <2>1. t[2] \in Agents
        BY <1>15 DEF Types, TypeOK
    <2>2. CASE UNCHANGED <<log, messages>>
        BY <1>15, <2>2
        DEF MentionReply, turnVars, TypeOK, Types, RefsOK, InTurn, PCs
    <2>3. ASSUME NEW m, Answers(p, t[2], m) PROVE RefsOK'
        BY <1>15, <2>1, <2>3
        DEF Answers, GrownBy, MentionReply, turnVars, TypeOK, Types, RefsOK,
            InTurn, PCs
    <2> QED
        BY <1>15, <2>2, <2>3, MentionReplyGrows DEF TypeOK
<1>16. ASSUME NEW p \in Proc, FinishTurn(p)
     PROVE  RefsOK'
    BY <1>16
    DEF FinishTurn, Unlock, Return, Forget, Goto, turnVars, TypeOK, Types,
        RefsOK, InTurn, PCs
<1>17. ASSUME NEW p \in Proc, Die(p)
     PROVE  RefsOK'
    BY <1>17
    DEF Die, Forget, Goto, turnVars, TypeOK, Types, RefsOK, InTurn, PCs
<1>18. CASE UNCHANGED vars
    BY <1>18 DEF vars, turnVars, TypeOK, Types, RefsOK, InTurn, PCs
<1> QED
    BY <1>1, <1>2, <1>3, <1>4, <1>5, <1>6, <1>7, <1>8, <1>9, <1>10, <1>11,
       <1>12, <1>13, <1>14, <1>15, <1>16, <1>17, <1>18
    DEF Next, ChatStep, TurnStep

(* Where a turn goes from the lock: on, or to its end. *)
Ends(p) == pc'[p] = (IF p \in Chats THEN "tick" ELSE "gone")

OthersStay(p) ==
    \A q \in Proc \ {p} : pc'[q] = pc[q] /\ trigger'[q] = trigger[q]

(* A turn that gets the dispatch lock goes on, one that does not ends.     *)
LEMMA TryLockMoves ==
    ASSUME Types, NEW p \in Proc, TryLock(p)
    PROVE  /\ log' = log /\ OthersStay(p)
           /\ \/ Ends(p)
              \/ pc'[p] = "locked" /\ trigger' = trigger
<1>1. pc \in [Proc -> PCs] /\ trigger \in [Proc -> Nat] /\ log' = log
    BY DEF Types, TryLock
<1>2. CASE holder = Nobody
  <2>1. pc' = [pc EXCEPT ![p] = "locked"] /\ trigger' = trigger
      BY <1>2 DEF TryLock, Goto, turnVars
  <2> QED
      BY <1>1, <2>1 DEF OthersStay
<1>3. CASE holder # Nobody
  <2>1. /\ pc' = [pc EXCEPT ![p] = IF p \in Chats THEN "tick" ELSE "gone"]
        /\ trigger' = [trigger EXCEPT ![p] = 0]
      BY <1>3 DEF TryLock, Return, Forget, Goto
  <2>2. OthersStay(p)
      BY <1>1, <2>1 DEF OthersStay
  <2>3. Ends(p)
      BY <1>1, <2>1 DEF Ends
  <2> QED
      BY <1>1, <2>1, <2>2, <2>3
<1> QED
    BY <1>2, <1>3

(* The second look at the log goes on to the routing or ends the turn.     *)
LEMMA CheckMoves ==
    ASSUME Types, NEW p \in Proc, Check(p)
    PROVE  /\ log' = log /\ me' = me /\ OthersStay(p)
           /\ \/ Ends(p)
              \/ pc'[p] = "route" /\ trigger' = trigger
<1>1. pc \in [Proc -> PCs] /\ trigger \in [Proc -> Nat]
    BY DEF Types
<1>2. CASE ~Answered(trigger[p])
  <2>1. /\ pc' = [pc EXCEPT ![p] = "route"]
        /\ trigger' = trigger /\ log' = log /\ me' = me
      BY <1>2 DEF Check, Goto
  <2> QED
      BY <1>1, <2>1 DEF OthersStay
<1>3. CASE Answered(trigger[p])
  <2>1. /\ pc' = [pc EXCEPT ![p] = IF p \in Chats THEN "tick" ELSE "gone"]
        /\ trigger' = [trigger EXCEPT ![p] = 0] /\ log' = log /\ me' = me
      BY <1>3 DEF Check, Unlock, Return, Forget, Goto
  <2>2. OthersStay(p)
      BY <1>1, <2>1 DEF OthersStay
  <2>3. Ends(p)
      BY <1>1, <2>1 DEF Ends
  <2> QED
      BY <1>1, <2>1, <2>2, <2>3
<1> QED
    BY <1>2, <1>3

(* REPLs stay with their humans. *)
LEMMA ChatsStep ==
    ASSUME TypeOK, Types', [Next]_vars
    PROVE  ChatsOK'
<1> USE DispatchAssumption DEF Proc, Names
<1>1. ASSUME NEW p \in Proc, NEW h \in Humans, PostHuman(p, h)
     PROVE  ChatsOK'
    <2>1. PICK m : Posts(h, "human", m)
        BY <1>1, HumanPosts DEF TypeOK
    <2> QED
        BY <1>1, <2>1
        DEF Posts, GrownBy, PostHuman, Goto, turnVars, TypeOK, Types, ChatsOK,
            InTurn, PCs
<1>2. ASSUME NEW p \in Proc, NEW h \in Humans, ChatStart(p, h)
     PROVE  ChatsOK'
    BY <1>2
    DEF ChatStart, Goto, All, turnVars, TypeOK, Types, ChatsOK, InTurn, PCs
<1>3. ASSUME NEW p \in Proc, NEW a \in Agents, NEW at \in SUBSET Agents,
           PostAgent(p, a, at)
     PROVE  ChatsOK'
    <2>1. PICK m : Posts(a, "agent", m)
        BY <1>3, AgentPosts DEF TypeOK
    <2> QED
        BY <1>3, <2>1
        DEF Posts, GrownBy, PostAgent, Goto, turnVars, TypeOK, Types, ChatsOK,
            InTurn, PCs
<1>4. ASSUME NEW p \in Proc, SeedSeen(p)
     PROVE  ChatsOK'
    BY <1>4
    DEF SeedSeen, Goto, All, turnVars, TypeOK, Types, ChatsOK, InTurn, PCs
<1>5. ASSUME NEW p \in Proc, Tick(p)
     PROVE  ChatsOK'
    BY <1>5 DEF Tick, Goto, turnVars, TypeOK, Types, ChatsOK, InTurn, PCs
<1>6. ASSUME NEW p \in Proc, NEW i \in New(p), TickNext(p, i)
     PROVE  ChatsOK'
    BY <1>6
    DEF TickNext, New, Goto, turnVars, TypeOK, Types, ChatsOK, InTurn, PCs
<1>7. ASSUME NEW p \in Proc, TickEnd(p)
     PROVE  ChatsOK'
    BY <1>7 DEF TickEnd, Goto, turnVars, TypeOK, Types, ChatsOK, InTurn, PCs
<1>8. ASSUME NEW p \in Proc, Type(p)
     PROVE  ChatsOK'
    <2>1. PICK m : Posts(me[p], "human", m)
        BY <1>8, ChatPosts DEF TypeOK
    <2> QED
        BY <1>8, <2>1
        DEF Posts, GrownBy, Type, Goto, turnVars, TypeOK, Types, ChatsOK,
            InTurn, PCs
<1>9. ASSUME NEW p \in Proc, TryLock(p)
     PROVE  ChatsOK'
    BY <1>9
    DEF TryLock, Return, Forget, Goto, turnVars, TypeOK, Types, ChatsOK,
        InTurn, PCs
<1>10. ASSUME NEW p \in Proc, Check(p)
     PROVE  ChatsOK'
    <2>1. /\ me' = me /\ \A q \in Proc \ {p} : pc'[q] = pc[q]
          /\ pc'[p] \in {"tick", "gone", "route"}
          /\ pc'[p] = "tick" => p \in Chats
        BY <1>10, CheckMoves DEF TypeOK, OthersStay, Ends
    <2>2. pc[p] = "locked"
        BY <1>10 DEF Check
    <2> QED
        BY <2>1, <2>2 DEF TypeOK, ChatsOK
<1>11. ASSUME NEW p \in Proc, NEW chosen \in SUBSET Agents, Route(p, chosen)
     PROVE  ChatsOK'
    BY <1>11 DEF Route, Goto, turnVars, TypeOK, Types, ChatsOK, InTurn, PCs
<1>12. ASSUME NEW p \in Proc, RouteFails(p)
     PROVE  ChatsOK'
    BY <1>12
    DEF RouteFails, Unlock, Return, Forget, Goto, turnVars, TypeOK, Types,
        ChatsOK, InTurn, PCs
<1>13. ASSUME NEW p \in Proc, NEW a \in Agents, Reply(p, a)
     PROVE  ChatsOK'
    <2>1. a \in Agents
        BY <1>13 DEF Types, TypeOK
    <2>2. CASE UNCHANGED <<log, messages>>
        BY <1>13, <2>2 DEF Reply, turnVars, TypeOK, Types, ChatsOK, InTurn, PCs
    <2>3. ASSUME NEW m, Answers(p, a, m) PROVE ChatsOK'
        BY <1>13, <2>1, <2>3
        DEF Answers, GrownBy, Reply, turnVars, TypeOK, Types, ChatsOK, InTurn,
            PCs
    <2> QED
        BY <1>13, <2>2, <2>3, ReplyGrows DEF TypeOK
<1>14. ASSUME NEW p \in Proc, NEW taken \in SUBSET Targets(p),
           CollectMentions(p, taken)
     PROVE  ChatsOK'
    BY <1>14
    DEF CollectMentions, Targets, Unseen, Goto, turnVars, TypeOK, Types,
        ChatsOK, InTurn, PCs
<1>15. ASSUME NEW p \in Proc, NEW t \in mentions[p], MentionReply(p, t)
     PROVE  ChatsOK'
    <2>1. t[2] \in Agents
        BY <1>15 DEF Types, TypeOK
    <2>2. CASE UNCHANGED <<log, messages>>
        BY <1>15, <2>2
        DEF MentionReply, turnVars, TypeOK, Types, ChatsOK, InTurn, PCs
    <2>3. ASSUME NEW m, Answers(p, t[2], m) PROVE ChatsOK'
        BY <1>15, <2>1, <2>3
        DEF Answers, GrownBy, MentionReply, turnVars, TypeOK, Types, ChatsOK,
            InTurn, PCs
    <2> QED
        BY <1>15, <2>2, <2>3, MentionReplyGrows DEF TypeOK
<1>16. ASSUME NEW p \in Proc, FinishTurn(p)
     PROVE  ChatsOK'
    BY <1>16
    DEF FinishTurn, Unlock, Return, Forget, Goto, turnVars, TypeOK, Types,
        ChatsOK, InTurn, PCs
<1>17. ASSUME NEW p \in Proc, Die(p)
     PROVE  ChatsOK'
    BY <1>17
    DEF Die, Forget, Goto, turnVars, TypeOK, Types, ChatsOK, InTurn, PCs
<1>18. CASE UNCHANGED vars
    BY <1>18 DEF vars, turnVars, TypeOK, Types, ChatsOK, InTurn, PCs
<1> QED
    BY <1>1, <1>2, <1>3, <1>4, <1>5, <1>6, <1>7, <1>8, <1>9, <1>10, <1>11,
       <1>12, <1>13, <1>14, <1>15, <1>16, <1>17, <1>18
    DEF Next, ChatStep, TurnStep

(* Every behaviour of the dispatching processes is type correct. *)
THEOREM TypeCorrect == Spec => []TypeOK
<1>1. Init => TypeOK
    BY DispatchAssumption
    DEF Init, TypeOK, Types, KindsOK, RefsOK, ChatsOK, InTurn, PCs, Proc, Names
<1>2. TypeOK /\ [Next]_vars => TypeOK'
    BY TypesStep, KindsStep, RefsStep, ChatsStep DEF TypeOK
<1> QED
    BY <1>1, <1>2, PTL DEF Spec

(* The dispatch lock and the program counters agree: two turns never       *)
(* overlap.                                                                *)
THEOREM LockOwnership == Spec => []LockOwned
<1> USE DispatchAssumption DEF Proc, Names
<1>1. Init => LockOwned
    BY DEF Init, LockOwned, TypeOK, Types, InTurn, PCs
<1>2. TypeOK /\ LockOwned /\ [Next]_vars => LockOwned'
  <2> SUFFICES ASSUME TypeOK, LockOwned, [Next]_vars PROVE LockOwned'
      OBVIOUS
  <2>1. ASSUME NEW p \in Proc, NEW h \in Humans, PostHuman(p, h)
       PROVE  LockOwned'
      BY <2>1
      DEF PostHuman, AddMessage, Posted, Goto, turnVars, LockOwned, TypeOK,
          Types, InTurn, PCs
  <2>2. ASSUME NEW p \in Proc, NEW h \in Humans, ChatStart(p, h)
       PROVE  LockOwned'
      BY <2>2
      DEF ChatStart, Goto, All, turnVars, LockOwned, TypeOK, Types, InTurn, PCs
  <2>3. ASSUME NEW p \in Proc, NEW a \in Agents, NEW at \in SUBSET Agents,
             PostAgent(p, a, at)
       PROVE  LockOwned'
      BY <2>3
      DEF PostAgent, AddMessage, Posted, Goto, turnVars, LockOwned, TypeOK,
          Types, InTurn, PCs
  <2>4. ASSUME NEW p \in Proc, SeedSeen(p)
       PROVE  LockOwned'
      BY <2>4
      DEF SeedSeen, Goto, All, turnVars, LockOwned, TypeOK, Types, InTurn, PCs
  <2>5. ASSUME NEW p \in Proc, Tick(p)
       PROVE  LockOwned'
      BY <2>5 DEF Tick, Goto, turnVars, LockOwned, TypeOK, Types, InTurn, PCs
  <2>6. ASSUME NEW p \in Proc, NEW i \in New(p), TickNext(p, i)
       PROVE  LockOwned'
      BY <2>6
      DEF TickNext, New, Goto, turnVars, LockOwned, TypeOK, Types, InTurn, PCs
  <2>7. ASSUME NEW p \in Proc, TickEnd(p)
       PROVE  LockOwned'
      BY <2>7
      DEF TickEnd, Goto, turnVars, LockOwned, TypeOK, Types, InTurn, PCs
  <2>8. ASSUME NEW p \in Proc, Type(p)
       PROVE  LockOwned'
      BY <2>8
      DEF Type, AddMessage, Posted, Goto, turnVars, LockOwned, TypeOK, Types,
          InTurn, PCs
  <2>9. ASSUME NEW p \in Proc, TryLock(p)
       PROVE  LockOwned'
      BY <2>9
      DEF TryLock, Return, Forget, Goto, turnVars, LockOwned, TypeOK, Types,
          InTurn, PCs
  <2>10. ASSUME NEW p \in Proc, Check(p)
       PROVE  LockOwned'
      BY <2>10
      DEF Check, Unlock, Return, Forget, Goto, Answered, All, turnVars,
          LockOwned, TypeOK, Types, InTurn, PCs
  <2>11. ASSUME NEW p \in Proc, NEW chosen \in SUBSET Agents, Route(p, chosen)
       PROVE  LockOwned'
      BY <2>11 DEF Route, Goto, turnVars, LockOwned, TypeOK, Types, InTurn, PCs
  <2>12. ASSUME NEW p \in Proc, RouteFails(p)
       PROVE  LockOwned'
      BY <2>12
      DEF RouteFails, Unlock, Return, Forget, Goto, turnVars, LockOwned,
          TypeOK, Types, InTurn, PCs
  <2>13. ASSUME NEW p \in Proc, NEW a \in Agents, Reply(p, a)
       PROVE  LockOwned'
      BY <2>13
      DEF Reply, Answer, PassOver, AddMessage, turnVars, LockOwned, TypeOK,
          Types, InTurn, PCs
  <2>14. ASSUME NEW p \in Proc, NEW taken \in SUBSET Targets(p),
             CollectMentions(p, taken)
       PROVE  LockOwned'
      BY <2>14
      DEF CollectMentions, Targets, Unseen, Goto, turnVars, LockOwned, TypeOK,
          Types, InTurn, PCs
  <2>15. ASSUME NEW p \in Proc, NEW t \in mentions[p], MentionReply(p, t)
       PROVE  LockOwned'
      BY <2>15
      DEF MentionReply, Answer, PassOver, AddMessage, turnVars, LockOwned,
          TypeOK, Types, InTurn, PCs
  <2>16. ASSUME NEW p \in Proc, FinishTurn(p)
       PROVE  LockOwned'
      BY <2>16
      DEF FinishTurn, Unlock, Return, Forget, Goto, turnVars, LockOwned,
          TypeOK, Types, InTurn, PCs
  <2>17. ASSUME NEW p \in Proc, Die(p)
       PROVE  LockOwned'
      BY <2>17
      DEF Die, Forget, Goto, turnVars, LockOwned, TypeOK, Types, InTurn, PCs
  <2>18. CASE UNCHANGED vars
      BY <2>18 DEF vars, turnVars, LockOwned, TypeOK, Types, InTurn, PCs
  <2> QED
      BY <2>1, <2>2, <2>3, <2>4, <2>5, <2>6, <2>7, <2>8, <2>9, <2>10, <2>11,
         <2>12, <2>13, <2>14, <2>15, <2>16, <2>17, <2>18
      DEF Next, ChatStep, TurnStep
<1> QED
    BY <1>1, <1>2, PTL, TypeCorrect DEF Spec

(* Dispatched replies come after what they answer. *)
THEOREM RepliesFollowTriggers == Spec => []RepliesFollow
<1>1. Init => RepliesFollow
    BY DEF Init, RepliesFollow
<1>2. TypeOK /\ RepliesFollow /\ [Next]_vars => RepliesFollow'
  <2> SUFFICES ASSUME TypeOK, RepliesFollow, [Next]_vars PROVE RepliesFollow'
      OBVIOUS
  <2>1. CASE UNCHANGED log
      BY <2>1 DEF RepliesFollow
  <2>2. CASE LogPosted
      BY <2>2, FollowGrow DEF LogPosted, Posts
  <2>3. CASE LogAnswered
      BY <2>3, FollowGrow DEF LogAnswered, Answers, TypeOK, RefsOK
  <2> QED
      BY <2>1, <2>2, <2>3, LogStep
<1> QED
    BY <1>1, <1>2, PTL, TypeCorrect DEF Spec

(* What is dispatched for was posted by a human or by a remote agent. *)
THEOREM TriggersArePosted == Spec => []TriggersPosted
<1> USE DispatchAssumption DEF Proc, Names
<1>1. Init => TriggersPosted
    BY DEF Init, TriggersPosted, TypeOK, Types, RefsOK, InTurn, PCs
<1>2. TypeOK /\ RepliesFollow /\ TriggersPosted /\ [Next]_vars => TriggersPosted'
  <2> SUFFICES ASSUME TypeOK, RepliesFollow, TriggersPosted, [Next]_vars
               PROVE  TriggersPosted'
      OBVIOUS
  <2>1. ASSUME NEW p \in Proc, NEW h \in Humans, PostHuman(p, h)
       PROVE  TriggersPosted'
      <3>1. PICK m : Posts(h, "human", m)
          BY <2>1, HumanPosts DEF TypeOK
      <3> QED
          BY <2>1, <3>1
          DEF Posts, GrownBy, PostHuman, Goto, turnVars, TriggersPosted,
              TypeOK, Types, RefsOK, InTurn, PCs
  <2>2. ASSUME NEW p \in Proc, NEW h \in Humans, ChatStart(p, h)
       PROVE  TriggersPosted'
      BY <2>2
      DEF ChatStart, Goto, All, turnVars, TriggersPosted, TypeOK, Types,
          RefsOK, InTurn, PCs
  <2>3. ASSUME NEW p \in Proc, NEW a \in Agents, NEW at \in SUBSET Agents,
             PostAgent(p, a, at)
       PROVE  TriggersPosted'
      <3>1. PICK m : Posts(a, "agent", m)
          BY <2>3, AgentPosts DEF TypeOK
      <3> QED
          BY <2>3, <3>1
          DEF Posts, GrownBy, PostAgent, Goto, turnVars, TriggersPosted,
              TypeOK, Types, RefsOK, InTurn, PCs
  <2>4. ASSUME NEW p \in Proc, SeedSeen(p)
       PROVE  TriggersPosted'
      BY <2>4
      DEF SeedSeen, Goto, All, turnVars, TriggersPosted, TypeOK, Types,
          RefsOK, InTurn, PCs
  <2>5. ASSUME NEW p \in Proc, Tick(p)
       PROVE  TriggersPosted'
      BY <2>5
      DEF Tick, Goto, turnVars, TriggersPosted, TypeOK, Types, RefsOK, InTurn,
          PCs
  <2>6. ASSUME NEW p \in Proc, NEW i \in New(p), TickNext(p, i)
       PROVE  TriggersPosted'
      <3>1. i \in DOMAIN log
          BY <2>6 DEF New, TypeOK, Types, RefsOK
      <3>2. log[i].kind = "human" => log[i].re = 0
          BY <3>1 DEF RepliesFollow
      <3> QED
          BY <2>6, <3>1, <3>2
          DEF TickNext, Goto, TriggersPosted, TypeOK, Types, InTurn, PCs
  <2>7. ASSUME NEW p \in Proc, TickEnd(p)
       PROVE  TriggersPosted'
      BY <2>7
      DEF TickEnd, Goto, turnVars, TriggersPosted, TypeOK, Types, RefsOK,
          InTurn, PCs
  <2>8. ASSUME NEW p \in Proc, Type(p)
       PROVE  TriggersPosted'
      <3>1. PICK m : Posts(me[p], "human", m)
          BY <2>8, ChatPosts DEF TypeOK
      <3> QED
          BY <2>8, <3>1
          DEF Posts, GrownBy, Type, Goto, turnVars, TriggersPosted, TypeOK,
              Types, RefsOK, InTurn, PCs
  <2>9. ASSUME NEW p \in Proc, TryLock(p)
       PROVE  TriggersPosted'
      <3>1. pc[p] = "ready"
          BY <2>9 DEF TryLock
      <3> QED
          BY <2>9, <3>1, TryLockMoves
          DEF TriggersPosted, TypeOK, OthersStay, Ends, InTurn
  <2>10. ASSUME NEW p \in Proc, Check(p)
       PROVE  TriggersPosted'
      <3>1. pc[p] = "locked"
          BY <2>10 DEF Check
      <3> QED
          BY <2>10, <3>1, CheckMoves
          DEF TriggersPosted, TypeOK, OthersStay, Ends, InTurn
  <2>11. ASSUME NEW p \in Proc, NEW chosen \in SUBSET Agents, Route(p, chosen)
       PROVE  TriggersPosted'
      BY <2>11
      DEF Route, Goto, turnVars, TriggersPosted, TypeOK, Types, RefsOK,
          InTurn, PCs
  <2>12. ASSUME NEW p \in Proc, RouteFails(p)
       PROVE  TriggersPosted'
      BY <2>12
      DEF RouteFails, Unlock, Return, Forget, Goto, turnVars, TriggersPosted,
          TypeOK, Types, RefsOK, InTurn, PCs
  <2>13. ASSUME NEW p \in Proc, NEW a \in Agents, Reply(p, a)
       PROVE  TriggersPosted'
      <3>1. a \in Agents
          BY <2>13 DEF Types, TypeOK
      <3>2. CASE UNCHANGED <<log, messages>>
          BY <2>13, <3>2
          DEF Reply, turnVars, TriggersPosted, TypeOK, Types, RefsOK, InTurn,
              PCs
      <3>3. ASSUME NEW m, Answers(p, a, m) PROVE TriggersPosted'
          BY <2>13, <3>1, <3>3
          DEF Answers, GrownBy, Reply, turnVars, TriggersPosted, TypeOK,
              Types, RefsOK, InTurn, PCs
      <3> QED
          BY <2>13, <3>2, <3>3, ReplyGrows DEF TypeOK
  <2>14. ASSUME NEW p \in Proc, NEW taken \in SUBSET Targets(p),
             CollectMentions(p, taken)
       PROVE  TriggersPosted'
      BY <2>14
      DEF CollectMentions, Targets, Unseen, Goto, turnVars, TriggersPosted,
          TypeOK, Types, RefsOK, InTurn, PCs
  <2>15. ASSUME NEW p \in Proc, NEW t \in mentions[p], MentionReply(p, t)
       PROVE  TriggersPosted'
      <3>1. t[2] \in Agents
          BY <2>15 DEF Types, TypeOK
      <3>2. CASE UNCHANGED <<log, messages>>
          BY <2>15, <3>2
          DEF MentionReply, turnVars, TriggersPosted, TypeOK, Types, RefsOK,
              InTurn, PCs
      <3>3. ASSUME NEW m, Answers(p, t[2], m) PROVE TriggersPosted'
          BY <2>15, <3>1, <3>3
          DEF Answers, GrownBy, MentionReply, turnVars, TriggersPosted,
              TypeOK, Types, RefsOK, InTurn, PCs
      <3> QED
          BY <2>15, <3>2, <3>3, MentionReplyGrows DEF TypeOK
  <2>16. ASSUME NEW p \in Proc, FinishTurn(p)
       PROVE  TriggersPosted'
      BY <2>16
      DEF FinishTurn, Unlock, Return, Forget, Goto, turnVars, TriggersPosted,
          TypeOK, Types, RefsOK, InTurn, PCs
  <2>17. ASSUME NEW p \in Proc, Die(p)
       PROVE  TriggersPosted'
      BY <2>17
      DEF Die, Forget, Goto, turnVars, TriggersPosted, TypeOK, Types, RefsOK,
          InTurn, PCs
  <2>18. CASE UNCHANGED vars
      BY <2>18
      DEF vars, turnVars, TriggersPosted, TypeOK, Types, RefsOK, InTurn, PCs
  <2> QED
      BY <2>1, <2>2, <2>3, <2>4, <2>5, <2>6, <2>7, <2>8, <2>9, <2>10, <2>11,
         <2>12, <2>13, <2>14, <2>15, <2>16, <2>17, <2>18
      DEF Next, ChatStep, TurnStep
<1> QED
    BY <1>1, <1>2, PTL, TypeCorrect, RepliesFollowTriggers DEF Spec

(* No dispatched reply is ever dispatched for: agents cannot keep each     *)
(* other talking, whoever runs chats and however turns are cut short.      *)
THEOREM RepliesDoNotLoop == Spec => []NoReplyLoop
<1>1. TriggersPosted => NoReplyLoop
    BY DEF TriggersPosted, NoReplyLoop
<1> QED
    BY <1>1, TriggersArePosted, PTL

(* The holder of the lock may answer: nobody else is in a turn. *)
LEMMA AnswerAlone ==
    ASSUME LockOwned, TurnIsAlone, NEW p \in Proc, NEW a, NEW m,
           Answers(p, a, m), holder = p, pc' = pc, trigger' = trigger
    PROVE  TurnIsAlone'
<1> SUFFICES ASSUME NEW q \in Proc, pc[q] \in InTurn \ {"locked"}
             PROVE  \A i \in DOMAIN log' : log'[i].re = trigger[q] => log'[i].by = q
    BY DEF TurnIsAlone
<1>1. q = p
    BY DEF LockOwned
<1>2. GrownBy(m) /\ m.by = q
    BY <1>1 DEF Answers
<1>3. \A i \in DOMAIN log : log[i].re = trigger[q] => log[i].by = q
    BY DEF TurnIsAlone
<1> QED
    BY <1>2, <1>3, AloneGrow

(* The lock and the second look at the log leave each turn alone with its  *)
(* trigger.                                                                *)
THEOREM TurnsAreAlone == Spec => []TurnIsAlone
<1> USE DispatchAssumption DEF Proc, Names
<1>1. Init => TurnIsAlone
    BY DEF Init, TurnIsAlone, TypeOK, Types, RefsOK, InTurn, PCs
<1>2. TypeOK /\ RepliesFollow /\ LockOwned /\ TurnIsAlone /\ [Next]_vars => TurnIsAlone'
  <2> SUFFICES ASSUME TypeOK, RepliesFollow, LockOwned, TurnIsAlone, [Next]_vars
               PROVE  TurnIsAlone'
      OBVIOUS
  <2>1. ASSUME NEW p \in Proc, NEW h \in Humans, PostHuman(p, h)
       PROVE  TurnIsAlone'
      <3>1. PICK m : Posts(h, "human", m)
          BY <2>1, HumanPosts DEF TypeOK
      <3> SUFFICES ASSUME NEW q \in Proc, pc'[q] \in InTurn \ {"locked"}
                   PROVE  \A i \in DOMAIN log' :
                              log'[i].re = trigger'[q] => log'[i].by = q
          BY DEF TurnIsAlone
      <3>2. pc[q] \in InTurn \ {"locked"} /\ trigger'[q] = trigger[q]
          BY <2>1 DEF PostHuman, Goto, TypeOK, Types, InTurn, PCs
      <3>3. m.re # trigger[q]
          BY <3>1, <3>2 DEF Posts, TypeOK, RefsOK
      <3>4. GrownBy(m)
          BY <3>1 DEF Posts
      <3>5. \A i \in DOMAIN log : log[i].re = trigger[q] => log[i].by = q
          BY <3>2 DEF TurnIsAlone
      <3>6. \A i \in DOMAIN log' : log'[i].re = trigger[q] => log'[i].by = q
          BY <3>3, <3>4, <3>5, AloneGrow
      <3> QED
          BY <3>2, <3>6
  <2>2. ASSUME NEW p \in Proc, NEW h \in Humans, ChatStart(p, h)
       PROVE  TurnIsAlone'
      BY <2>2
      DEF ChatStart, Goto, All, turnVars, TurnIsAlone, TypeOK, Types, RefsOK,
          InTurn, PCs
  <2>3. ASSUME NEW p \in Proc, NEW a \in Agents, NEW at \in SUBSET Agents,
             PostAgent(p, a, at)
       PROVE  TurnIsAlone'
      <3>1. PICK m : Posts(a, "agent", m)
          BY <2>3, AgentPosts DEF TypeOK
      <3> SUFFICES ASSUME NEW q \in Proc, pc'[q] \in InTurn \ {"locked"}
                   PROVE  \A i \in DOMAIN log' :
                              log'[i].re = trigger'[q] => log'[i].by = q
          BY DEF TurnIsAlone
      <3>2. pc[q] \in InTurn \ {"locked"} /\ trigger'[q] = trigger[q]
          BY <2>3 DEF PostAgent, Goto, TypeOK, Types, InTurn, PCs
      <3>3. m.re # trigger[q]
          BY <3>1, <3>2 DEF Posts, TypeOK, RefsOK
      <3>4. GrownBy(m)
          BY <3>1 DEF Posts
      <3>5. \A i \in DOMAIN log : log[i].re = trigger[q] => log[i].by = q
          BY <3>2 DEF TurnIsAlone
      <3>6. \A i \in DOMAIN log' : log'[i].re = trigger[q] => log'[i].by = q
          BY <3>3, <3>4, <3>5, AloneGrow
      <3> QED
          BY <3>2, <3>6
  <2>4. ASSUME NEW p \in Proc, SeedSeen(p)
       PROVE  TurnIsAlone'
      BY <2>4
      DEF SeedSeen, Goto, All, turnVars, TurnIsAlone, TypeOK, Types, RefsOK,
          InTurn, PCs
  <2>5. ASSUME NEW p \in Proc, Tick(p)
       PROVE  TurnIsAlone'
      BY <2>5
      DEF Tick, Goto, turnVars, TurnIsAlone, TypeOK, Types, RefsOK, InTurn, PCs
  <2>6. ASSUME NEW p \in Proc, NEW i \in New(p), TickNext(p, i)
       PROVE  TurnIsAlone'
      <3>1. /\ log' = log /\ pc'[p] \in {"ready", "tick"}
            /\ \A q \in Proc \ {p} : pc'[q] = pc[q] /\ trigger'[q] = trigger[q]
          BY <2>6 DEF TickNext, Goto, TypeOK, Types
      <3> QED
          BY <3>1 DEF TurnIsAlone, InTurn
  <2>7. ASSUME NEW p \in Proc, TickEnd(p)
       PROVE  TurnIsAlone'
      BY <2>7
      DEF TickEnd, Goto, turnVars, TurnIsAlone, TypeOK, Types, RefsOK, InTurn,
          PCs
  <2>8. ASSUME NEW p \in Proc, Type(p)
       PROVE  TurnIsAlone'
      <3>1. PICK m : Posts(me[p], "human", m)
          BY <2>8, ChatPosts DEF TypeOK
      <3> SUFFICES ASSUME NEW q \in Proc, pc'[q] \in InTurn \ {"locked"}
                   PROVE  \A i \in DOMAIN log' :
                              log'[i].re = trigger'[q] => log'[i].by = q
          BY DEF TurnIsAlone
      <3>2. pc[q] \in InTurn \ {"locked"} /\ trigger'[q] = trigger[q]
          BY <2>8 DEF Type, Goto, TypeOK, Types, InTurn, PCs
      <3>3. m.re # trigger[q]
          BY <3>1, <3>2 DEF Posts, TypeOK, RefsOK
      <3>4. GrownBy(m)
          BY <3>1 DEF Posts
      <3>5. \A i \in DOMAIN log : log[i].re = trigger[q] => log[i].by = q
          BY <3>2 DEF TurnIsAlone
      <3>6. \A i \in DOMAIN log' : log'[i].re = trigger[q] => log'[i].by = q
          BY <3>3, <3>4, <3>5, AloneGrow
      <3> QED
          BY <3>2, <3>6
  <2>9. ASSUME NEW p \in Proc, TryLock(p)
       PROVE  TurnIsAlone'
      BY <2>9, TryLockMoves DEF TurnIsAlone, TypeOK, OthersStay, Ends, InTurn
  <2>10. ASSUME NEW p \in Proc, Check(p)
       PROVE  TurnIsAlone'
      <3>1. CASE ~Answered(trigger[p])
        <4>1. \A i \in DOMAIN log : log[i].re # trigger[p]
          <5> SUFFICES ASSUME NEW i \in DOMAIN log, log[i].re = trigger[p]
                       PROVE  FALSE
              OBVIOUS
          <5>1. trigger[p] \in 1 .. Len(log)
              BY <2>10 DEF Check, TypeOK, RefsOK, InTurn, PCs
          <5>2. log[i].kind = "agent" /\ trigger[p] < i
              BY <5>1 DEF RepliesFollow
          <5>3. i \in trigger[p] + 1 .. Len(log)
              BY <5>1, <5>2 DEF TypeOK, Types
          <5> QED
              BY <3>1, <5>2, <5>3 DEF Answered
        <4> QED
            BY <2>10, <4>1, CheckMoves
            DEF TurnIsAlone, TypeOK, OthersStay, Ends, InTurn
      <3>2. CASE Answered(trigger[p])
        <4>1. Ends(p)
            BY <2>10, <3>2 DEF Check, Unlock, Return, Forget, Goto, TypeOK,
               Types, Ends
        <4> QED
            BY <2>10, <4>1, CheckMoves
            DEF TurnIsAlone, TypeOK, OthersStay, Ends, InTurn
      <3> QED
          BY <3>1, <3>2
  <2>11. ASSUME NEW p \in Proc, NEW chosen \in SUBSET Agents, Route(p, chosen)
       PROVE  TurnIsAlone'
      BY <2>11
      DEF Route, Goto, turnVars, TurnIsAlone, TypeOK, Types, RefsOK, InTurn,
          PCs
  <2>12. ASSUME NEW p \in Proc, RouteFails(p)
       PROVE  TurnIsAlone'
      BY <2>12
      DEF RouteFails, Unlock, Return, Forget, Goto, turnVars, TurnIsAlone,
          TypeOK, Types, RefsOK, InTurn, PCs
  <2>13. ASSUME NEW p \in Proc, NEW a \in Agents, Reply(p, a)
       PROVE  TurnIsAlone'
      <3>1. pc' = pc /\ trigger' = trigger /\ holder = p /\ a \in Agents
          BY <2>13 DEF Reply, LockOwned, TypeOK, Types, InTurn, PCs
      <3>2. CASE UNCHANGED <<log, messages>>
          BY <3>1, <3>2 DEF TurnIsAlone
      <3>4. ASSUME NEW m, Answers(p, a, m) PROVE TurnIsAlone'
          BY <3>1, <3>4, AnswerAlone
      <3> QED
          BY <2>13, <3>2, <3>4, ReplyGrows DEF TypeOK
  <2>14. ASSUME NEW p \in Proc, NEW taken \in SUBSET Targets(p),
             CollectMentions(p, taken)
       PROVE  TurnIsAlone'
      BY <2>14
      DEF CollectMentions, Targets, Unseen, Goto, turnVars, TurnIsAlone,
          TypeOK, Types, RefsOK, InTurn, PCs
  <2>15. ASSUME NEW p \in Proc, NEW t \in mentions[p], MentionReply(p, t)
       PROVE  TurnIsAlone'
      <3>1. pc' = pc /\ trigger' = trigger /\ holder = p /\ t[2] \in Agents
          BY <2>15 DEF MentionReply, LockOwned, TypeOK, Types, InTurn, PCs
      <3>2. CASE UNCHANGED <<log, messages>>
          BY <3>1, <3>2 DEF TurnIsAlone
      <3>4. ASSUME NEW m, Answers(p, t[2], m) PROVE TurnIsAlone'
          BY <3>1, <3>4, AnswerAlone
      <3> QED
          BY <2>15, <3>2, <3>4, MentionReplyGrows DEF TypeOK
  <2>16. ASSUME NEW p \in Proc, FinishTurn(p)
       PROVE  TurnIsAlone'
      BY <2>16
      DEF FinishTurn, Unlock, Return, Forget, Goto, turnVars, TurnIsAlone,
          TypeOK, Types, RefsOK, InTurn, PCs
  <2>17. ASSUME NEW p \in Proc, Die(p)
       PROVE  TurnIsAlone'
      BY <2>17
      DEF Die, Forget, Goto, turnVars, TurnIsAlone, TypeOK, Types, RefsOK,
          InTurn, PCs
  <2>18. CASE UNCHANGED vars
      BY <2>18
      DEF vars, turnVars, TurnIsAlone, TypeOK, Types, RefsOK, InTurn, PCs
  <2> QED
      BY <2>1, <2>2, <2>3, <2>4, <2>5, <2>6, <2>7, <2>8, <2>9, <2>10, <2>11,
         <2>12, <2>13, <2>14, <2>15, <2>16, <2>17, <2>18
      DEF Next, ChatStep, TurnStep
<1> QED
    BY <1>1, <1>2, PTL, TypeCorrect, RepliesFollowTriggers,
       LockOwnership DEF Spec

(* One more message keeps AnsweredOnce if it is no reply, or if the replies *)
(* to the same trigger are of the same process.                             *)
LEMMA OnceGrow ==
    ASSUME AnsweredOnce, NEW m, GrownBy(m),
           m.re # 0 => \A i \in DOMAIN log : log[i].re = m.re => log[i].by = m.by
    PROVE  AnsweredOnce'
<1> SUFFICES ASSUME NEW i \in DOMAIN log', NEW j \in DOMAIN log',
                    log'[i].re # 0, log'[i].re = log'[j].re
             PROVE  log'[i].by = log'[j].by
    BY DEF AnsweredOnce
<1>1. /\ i \in DOMAIN log \/ i = Len(log) + 1
      /\ j \in DOMAIN log \/ j = Len(log) + 1
    BY DEF GrownBy
<1>2. CASE i \in DOMAIN log /\ j \in DOMAIN log
    BY <1>2 DEF GrownBy, AnsweredOnce
<1>3. CASE i = Len(log) + 1 \/ j = Len(log) + 1
    BY <1>1, <1>3 DEF GrownBy
<1> QED
    BY <1>1, <1>2, <1>3

(* The replies to a message all come from one turn, for any number of      *)
(* processes that notice it.                                               *)
THEOREM MessagesAnsweredOnce == Spec => []AnsweredOnce
<1>1. Init => AnsweredOnce
    BY DEF Init, AnsweredOnce
<1>2. TypeOK /\ TurnIsAlone /\ AnsweredOnce /\ [Next]_vars => AnsweredOnce'
  <2> SUFFICES ASSUME TypeOK, TurnIsAlone, AnsweredOnce, [Next]_vars
               PROVE  AnsweredOnce'
      OBVIOUS
  <2>1. CASE UNCHANGED log
      BY <2>1 DEF AnsweredOnce
  <2>2. CASE LogPosted
      BY <2>2, OnceGrow DEF LogPosted, Posts
  <2>3. CASE LogAnswered
      BY <2>3, OnceGrow DEF LogAnswered, Answers, TurnIsAlone
  <2> QED
      BY <2>1, <2>2, <2>3, LogStep
<1> QED
    BY <1>1, <1>2, PTL, TypeCorrect, TurnsAreAlone DEF Spec

-----------------------------------------------------------------------------
(* The mention rounds. *)

(* A process whose triggers are messages that it has noticed, with all     *)
(* that was in the log before them: not a chat that lines are typed into.  *)
Noticing(p) == p \in OneShots \/ ~Typing

SeenUpToTrigger ==
    \A p \in Proc :
        Noticing(p) /\ pc[p] \in InTurn \cup {"ready"} =>
            1 .. trigger[p] \subseteq seen[p]

(* What is in the copy of a turn that it did not know is not by an agent,  *)
(* or is its own.                                                          *)
CopyIsOwn ==
    \A p \in Proc :
        Noticing(p) /\ pc[p] \in InTurn \ {"locked"} =>
            \A i \in messages[p] :
                /\ i \in DOMAIN log
                /\ i \notin preMainSeen[p] /\ log[i].kind = "agent" =>
                       log[i].re = trigger[p] /\ log[i].by = p

MentionsAreOwn ==
    \A p \in Proc :
        Noticing(p) /\ pc[p] = "mention" =>
            \A t \in mentions[p] :
                /\ t[1] \in DOMAIN log
                /\ log[t[1]].re = trigger[p] /\ log[t[1]].by = p

(* A message that answers a mention of its own turn, or none. *)
OwnVia(m) ==
    m.via # 0 /\ Noticing(m.by) =>
        m.via \in DOMAIN log /\ log[m.via].re = m.re /\ log[m.via].by = m.by

ViasAreOwn == \A i \in DOMAIN log : OwnVia(log[i])

RoundInv == CopyIsOwn /\ MentionsAreOwn /\ ViasAreOwn

(* Process q is in the same turn as before. *)
SameTurn(q) ==
    /\ pc'[q] \in InTurn \ {"locked"} =>
         /\ pc[q] \in InTurn \ {"locked"}
         /\ trigger'[q] = trigger[q] /\ preMainSeen'[q] = preMainSeen[q]
    /\ pc'[q] = "mention" => pc[q] = "mention" /\ mentions'[q] \subseteq mentions[q]

(* A step that does not write to the log. *)
LEMMA RoundKept ==
    ASSUME RoundInv, log' = log,
           \A q \in Proc : SameTurn(q),
           \A q \in Proc : pc'[q] \in InTurn \ {"locked"} =>
                              messages'[q] \subseteq messages[q]
    PROVE  RoundInv'
<1>1. CopyIsOwn'
    BY DEF RoundInv, CopyIsOwn, SameTurn
<1>2. MentionsAreOwn'
    BY DEF RoundInv, MentionsAreOwn, SameTurn, InTurn
<1>3. ViasAreOwn'
    BY DEF RoundInv, ViasAreOwn, OwnVia
<1> QED
    BY <1>1, <1>2, <1>3 DEF RoundInv

(* A step that writes a message. *)
LEMMA RoundGrown ==
    ASSUME RoundInv, NEW m, GrownBy(m), OwnVia(m),
           \A q \in Proc : SameTurn(q),
           \A q \in Proc : pc'[q] \in InTurn \ {"locked"} =>
               \A i \in messages'[q] :
                   \/ i \in messages[q]
                   \/ i = Len(log) + 1 /\ m.re = trigger[q] /\ m.by = q
    PROVE  RoundInv'
<1>1. /\ \A i \in DOMAIN log : i \in DOMAIN log' /\ log'[i] = log[i]
      /\ Len(log) + 1 \in DOMAIN log' /\ log'[Len(log) + 1] = m
      /\ \A i \in DOMAIN log' : i \in DOMAIN log \/ i = Len(log) + 1
    BY DEF GrownBy
<1>2. CopyIsOwn'
    BY <1>1 DEF RoundInv, CopyIsOwn, SameTurn
<1>3. MentionsAreOwn'
    BY <1>1 DEF RoundInv, MentionsAreOwn, SameTurn, InTurn
<1>4. ViasAreOwn'
    BY <1>1 DEF RoundInv, ViasAreOwn, OwnVia
<1> QED
    BY <1>2, <1>3, <1>4 DEF RoundInv

(* An agent's answer names the message whose mention it answers. *)
LEMMA AnswerVia ==
    ASSUME Types, NEW p \in Proc, NEW a \in Agents, NEW at \in SUBSET Agents,
           NEW from \in Nat, Answer(p, a, at, from)
    PROVE  \E m : Answers(p, a, m) /\ m.via = from
<1> DEFINE m == [kind |-> "agent", sender |-> a, at |-> at \ {a},
                 re |-> trigger[p], via |-> from, by |-> p]
<1>1. m \in Message
    BY DEF Message, Types, Names, Proc
<1>2. log' = Append(log, m)
    BY DEF Answer, AddMessage
<1>3. GrownBy(m)
    BY <1>1, <1>2, Appended DEF Types
<1>4. messages' = [messages EXCEPT ![p] = @ \cup {Len(log) + 1}]
    BY DEF Answer
<1>5. Answers(p, a, m) /\ m.via = from
    BY <1>1, <1>3, <1>4 DEF Answers
<1> QED
    BY <1>5

(* A process takes a message as its trigger after it has seen all before   *)
(* it.                                                                     *)
LEMMA SeenStep ==
    ASSUME TypeOK, SeenUpToTrigger, [Next]_vars
    PROVE  SeenUpToTrigger'
<1> USE DispatchAssumption DEF SeenUpToTrigger, Noticing, InTurn, turnVars
<1>a. /\ pc \in [Proc -> PCs] /\ seen \in [Proc -> SUBSET Nat]
      /\ trigger \in [Proc -> Nat] /\ limit \in [Proc -> Nat]
    BY DEF TypeOK, Types
<1>1. ASSUME NEW p \in Proc, NEW h \in Humans, PostHuman(p, h)
      PROVE  SeenUpToTrigger'
    BY <1>a, <1>1 DEF PostHuman, Goto
<1>2. ASSUME NEW p \in Proc, NEW h \in Humans, ChatStart(p, h)
      PROVE  SeenUpToTrigger'
    BY <1>a, <1>2 DEF ChatStart, Goto
<1>3. ASSUME NEW p \in Proc, NEW a \in Agents, NEW at \in SUBSET Agents, PostAgent(p, a, at)
      PROVE  SeenUpToTrigger'
    BY <1>a, <1>3 DEF PostAgent, Goto
<1>4. ASSUME NEW p \in Proc, SeedSeen(p)
      PROVE  SeenUpToTrigger'
  <2>1. trigger[p] \in 1 .. Len(log) /\ Len(log) \in Nat
      BY <1>4 DEF SeedSeen, TypeOK, RefsOK, Types
  <2>2. 1 .. trigger[p] \subseteq All(log)
      BY <2>1 DEF All
  <2> QED
      BY <1>a, <1>4, <2>2 DEF SeedSeen, Goto
<1>5. ASSUME NEW p \in Proc, Tick(p)
      PROVE  SeenUpToTrigger'
    BY <1>a, <1>5 DEF Tick, Goto
<1>6. ASSUME NEW p \in Proc, NEW i \in New(p), TickNext(p, i)
      PROVE  SeenUpToTrigger'
  <2>1. i \in 1 .. limit[p] /\ limit[p] \in Nat
      BY <1>a, <1>6 DEF New
  <2>2. 1 .. i \subseteq seen[p] \cup {i}
      <3> SUFFICES ASSUME NEW j \in 1 .. i, j # i
                   PROVE  j \in seen[p]
          OBVIOUS
      <3>1. j \in 1 .. limit[p] /\ ~(i <= j)
          BY <2>1
      <3> QED
          BY <1>6, <3>1 DEF TickNext, New
  <2> QED
      BY <1>a, <1>6, <2>2 DEF TickNext, Goto
<1>7. ASSUME NEW p \in Proc, TickEnd(p)
      PROVE  SeenUpToTrigger'
    BY <1>a, <1>7 DEF TickEnd, Goto
<1>8. ASSUME NEW p \in Proc, Type(p)
      PROVE  SeenUpToTrigger'
    BY <1>a, <1>8 DEF Type, Goto, TypeOK, ChatsOK
<1>9. ASSUME NEW p \in Proc, TryLock(p)
      PROVE  SeenUpToTrigger'
    BY <1>a, <1>9 DEF TryLock, Return, Forget, Goto
<1>10. ASSUME NEW p \in Proc, Check(p)
      PROVE  SeenUpToTrigger'
    BY <1>a, <1>10 DEF Check, Unlock, Return, Forget, Goto
<1>11. ASSUME NEW p \in Proc, NEW chosen \in SUBSET Agents, Route(p, chosen)
      PROVE  SeenUpToTrigger'
    BY <1>a, <1>11 DEF Route, Goto
<1>12. ASSUME NEW p \in Proc, RouteFails(p)
      PROVE  SeenUpToTrigger'
    BY <1>a, <1>12 DEF RouteFails, Unlock, Return, Forget, Goto
<1>13. ASSUME NEW p \in Proc, NEW a \in Agents, Reply(p, a)
      PROVE  SeenUpToTrigger'
    BY <1>a, <1>13 DEF Reply, Goto
<1>14. ASSUME NEW p \in Proc, NEW taken \in SUBSET Targets(p), CollectMentions(p, taken)
      PROVE  SeenUpToTrigger'
    BY <1>a, <1>14 DEF CollectMentions, Goto
<1>15. ASSUME NEW p \in Proc, NEW t \in mentions[p], MentionReply(p, t)
      PROVE  SeenUpToTrigger'
    BY <1>a, <1>15 DEF MentionReply, Goto
<1>16. ASSUME NEW p \in Proc, FinishTurn(p)
      PROVE  SeenUpToTrigger'
    BY <1>a, <1>16 DEF FinishTurn, Unlock, Return, Forget, Goto
<1>17. ASSUME NEW p \in Proc, Die(p)
      PROVE  SeenUpToTrigger'
    BY <1>a, <1>17 DEF Die, Forget, Goto
<1>18. CASE UNCHANGED vars
    BY <1>18 DEF vars
<1> QED
    BY <1>1, <1>2, <1>3, <1>4, <1>5, <1>6, <1>7, <1>8, <1>9, <1>10, <1>11,
       <1>12, <1>13, <1>14, <1>15, <1>16, <1>17, <1>18
    DEF Next, ChatStep, TurnStep

(* The mention round of a turn answers what the turn itself has written:   *)
(* the second look at the log has shown that no agent message follows the  *)
(* trigger, and those before it have been seen.                            *)
LEMMA RoundStep ==
    ASSUME TypeOK, LockOwned, SeenUpToTrigger, RoundInv, [Next]_vars
    PROVE  RoundInv'
<1> USE DispatchAssumption DEF InTurn, turnVars
<1>a. /\ pc \in [Proc -> PCs] /\ trigger \in [Proc -> Nat]
      /\ messages \in [Proc -> SUBSET Nat] /\ seen \in [Proc -> SUBSET Nat]
      /\ preMainSeen \in [Proc -> SUBSET Nat]
      /\ mentions \in [Proc -> SUBSET (Nat \X Agents)]
    BY DEF TypeOK, Types
<1>1. ASSUME NEW p \in Proc, NEW h \in Humans, PostHuman(p, h)
      PROVE  RoundInv'
  <2>1. PICK m : Posts(h, "human", m)
      BY <1>1, HumanPosts DEF TypeOK
  <2>2. GrownBy(m) /\ OwnVia(m)
      BY <2>1 DEF Posts, OwnVia
  <2>3. \A q \in Proc : SameTurn(q) /\ messages'[q] = messages[q]
      BY <1>a, <1>1 DEF SameTurn, PostHuman, Goto
  <2> QED
      BY <2>2, <2>3, RoundGrown
<1>2. ASSUME NEW p \in Proc, NEW h \in Humans, ChatStart(p, h)
      PROVE  RoundInv'
  <2>1. log' = log
      BY <1>2 DEF ChatStart, Goto
  <2>2. \A q \in Proc : SameTurn(q)
      BY <1>a, <1>2 DEF SameTurn, ChatStart, Goto
  <2>3. \A q \in Proc : pc'[q] \in InTurn \ {"locked"} => messages'[q] \subseteq messages[q]
      BY <1>a, <1>2 DEF ChatStart, Goto
  <2> QED
      BY <2>1, <2>2, <2>3, RoundKept
<1>3. ASSUME NEW p \in Proc, NEW a \in Agents, NEW at \in SUBSET Agents, PostAgent(p, a, at)
      PROVE  RoundInv'
  <2>1. PICK m : Posts(a, "agent", m)
      BY <1>3, AgentPosts DEF TypeOK
  <2>2. GrownBy(m) /\ OwnVia(m)
      BY <2>1 DEF Posts, OwnVia
  <2>3. \A q \in Proc : SameTurn(q) /\ messages'[q] = messages[q]
      BY <1>a, <1>3 DEF SameTurn, PostAgent, Goto
  <2> QED
      BY <2>2, <2>3, RoundGrown
<1>4. ASSUME NEW p \in Proc, SeedSeen(p)
      PROVE  RoundInv'
  <2>1. log' = log
      BY <1>4 DEF SeedSeen, Goto
  <2>2. \A q \in Proc : SameTurn(q)
      BY <1>a, <1>4 DEF SameTurn, SeedSeen, Goto
  <2>3. \A q \in Proc : pc'[q] \in InTurn \ {"locked"} => messages'[q] \subseteq messages[q]
      BY <1>a, <1>4 DEF SeedSeen, Goto
  <2> QED
      BY <2>1, <2>2, <2>3, RoundKept
<1>5. ASSUME NEW p \in Proc, Tick(p)
      PROVE  RoundInv'
  <2>1. log' = log
      BY <1>5 DEF Tick, Goto
  <2>2. \A q \in Proc : SameTurn(q)
      BY <1>a, <1>5 DEF SameTurn, Tick, Goto
  <2>3. \A q \in Proc : pc'[q] \in InTurn \ {"locked"} => messages'[q] \subseteq messages[q]
      BY <1>a, <1>5 DEF Tick, Goto
  <2> QED
      BY <2>1, <2>2, <2>3, RoundKept
<1>6. ASSUME NEW p \in Proc, NEW i \in New(p), TickNext(p, i)
      PROVE  RoundInv'
  <2>1. log' = log
      BY <1>6 DEF TickNext, Goto
  <2>2. \A q \in Proc : SameTurn(q)
      BY <1>a, <1>6 DEF SameTurn, TickNext, Goto
  <2>3. \A q \in Proc : pc'[q] \in InTurn \ {"locked"} => messages'[q] \subseteq messages[q]
      BY <1>a, <1>6 DEF TickNext, Goto
  <2> QED
      BY <2>1, <2>2, <2>3, RoundKept
<1>7. ASSUME NEW p \in Proc, TickEnd(p)
      PROVE  RoundInv'
  <2>1. log' = log
      BY <1>7 DEF TickEnd, Goto
  <2>2. \A q \in Proc : SameTurn(q)
      BY <1>a, <1>7 DEF SameTurn, TickEnd, Goto
  <2>3. \A q \in Proc : pc'[q] \in InTurn \ {"locked"} => messages'[q] \subseteq messages[q]
      BY <1>a, <1>7 DEF TickEnd, Goto
  <2> QED
      BY <2>1, <2>2, <2>3, RoundKept
<1>8. ASSUME NEW p \in Proc, Type(p)
      PROVE  RoundInv'
  <2>1. PICK m : Posts(me[p], "human", m)
      BY <1>8, ChatPosts DEF TypeOK
  <2>2. GrownBy(m) /\ OwnVia(m)
      BY <2>1 DEF Posts, OwnVia
  <2>3. \A q \in Proc : SameTurn(q) /\ messages'[q] = messages[q]
      BY <1>a, <1>8 DEF SameTurn, Type, Goto
  <2> QED
      BY <2>2, <2>3, RoundGrown
<1>9. ASSUME NEW p \in Proc, TryLock(p)
      PROVE  RoundInv'
  <2>1. log' = log
      BY <1>9 DEF TryLock, Return, Forget, Goto
  <2>2. \A q \in Proc : SameTurn(q)
      BY <1>a, <1>9 DEF SameTurn, TryLock, Return, Forget, Goto
  <2>3. \A q \in Proc : pc'[q] \in InTurn \ {"locked"} => messages'[q] \subseteq messages[q]
      BY <1>a, <1>9 DEF TryLock, Return, Forget, Goto
  <2> QED
      BY <2>1, <2>2, <2>3, RoundKept
<1>10. ASSUME NEW p \in Proc, Check(p)
      PROVE  RoundInv'
  <2>1. CASE Answered(trigger[p])
      <3>1. /\ log' = log /\ \A q \in Proc : SameTurn(q)
            /\ \A q \in Proc : pc'[q] \in InTurn \ {"locked"} =>
                 messages'[q] \subseteq messages[q]
          BY <1>a, <1>10, <2>1 DEF SameTurn, Check, Unlock, Return, Forget, Goto
      <3> QED
          BY <3>1, RoundKept
  <2>2. CASE ~Answered(trigger[p])
      <3>1. /\ log' = log /\ mentions' = mentions /\ trigger' = trigger
            /\ pc' = [pc EXCEPT ![p] = "route"]
            /\ messages' = [messages EXCEPT ![p] = All(log)]
            /\ preMainSeen' = [preMainSeen EXCEPT ![p] = seen[p] \cup {trigger[p]}]
          BY <1>a, <1>10, <2>2 DEF Check, Goto
      <3>2. ASSUME Noticing(p), NEW i \in All(log), log[i].kind = "agent"
            PROVE  i \in seen[p]
          <4>1. trigger[p] \in 1 .. Len(log) /\ Len(log) \in Nat /\ i \in 1 .. Len(log)
              BY <1>10 DEF Check, TypeOK, RefsOK, Types, All
          <4>2. i \in 1 .. trigger[p]
              BY <2>2, <3>2, <4>1 DEF Answered
          <4>3. 1 .. trigger[p] \subseteq seen[p]
              BY <1>10, <3>2 DEF Check, SeenUpToTrigger
          <4> QED
              BY <4>2, <4>3
      <3>3. All(log) = DOMAIN log
          BY DEF All, TypeOK, Types
      <3>4. CopyIsOwn'
          BY <1>a, <3>1, <3>2, <3>3 DEF RoundInv, CopyIsOwn
      <3>5. MentionsAreOwn'
          BY <1>a, <3>1 DEF RoundInv, MentionsAreOwn
      <3>6. ViasAreOwn'
          BY <3>1 DEF RoundInv, ViasAreOwn, OwnVia
      <3> QED
          BY <3>4, <3>5, <3>6 DEF RoundInv
  <2> QED
      BY <2>1, <2>2
<1>11. ASSUME NEW p \in Proc, NEW chosen \in SUBSET Agents, Route(p, chosen)
      PROVE  RoundInv'
  <2>1. log' = log
      BY <1>11 DEF Route, Goto
  <2>2. \A q \in Proc : SameTurn(q)
      BY <1>a, <1>11 DEF SameTurn, Route, Goto
  <2>3. \A q \in Proc : pc'[q] \in InTurn \ {"locked"} => messages'[q] \subseteq messages[q]
      BY <1>a, <1>11 DEF Route, Goto
  <2> QED
      BY <2>1, <2>2, <2>3, RoundKept
<1>12. ASSUME NEW p \in Proc, RouteFails(p)
      PROVE  RoundInv'
  <2>1. log' = log
      BY <1>12 DEF RouteFails, Unlock, Return, Forget, Goto
  <2>2. \A q \in Proc : SameTurn(q)
      BY <1>a, <1>12 DEF SameTurn, RouteFails, Unlock, Return, Forget, Goto
  <2>3. \A q \in Proc : pc'[q] \in InTurn \ {"locked"} => messages'[q] \subseteq messages[q]
      BY <1>a, <1>12 DEF RouteFails, Unlock, Return, Forget, Goto
  <2> QED
      BY <2>1, <2>2, <2>3, RoundKept
<1>13. ASSUME NEW p \in Proc, NEW a \in Agents, Reply(p, a)
      PROVE  RoundInv'
  <2>1. \A q \in Proc : SameTurn(q)
      BY <1>a, <1>13 DEF SameTurn, Reply
  <2>2. CASE UNCHANGED <<log, messages>>
      BY <2>1, <2>2, RoundKept
  <2>3. ASSUME NEW at \in SUBSET Agents, Answer(p, a, at, 0)
        PROVE  RoundInv'
      <3>1. a \in Agents /\ 0 \in Nat
          BY <1>a
      <3>2. PICK m : Answers(p, a, m) /\ m.via = 0
          BY <2>3, <3>1, AnswerVia DEF TypeOK
      <3>3. GrownBy(m) /\ OwnVia(m)
          BY <1>13, <3>2 DEF Reply, Answers, OwnVia
      <3>4. \A q \in Proc : \A i \in messages'[q] :
              i \in messages[q] \/ (i = Len(log) + 1 /\ m.re = trigger[q] /\ m.by = q)
          BY <1>a, <3>2 DEF Answers
      <3> QED
          BY <2>1, <3>3, <3>4, RoundGrown
  <2> QED
      BY <1>13, <2>2, <2>3 DEF Reply, PassOver
<1>14. ASSUME NEW p \in Proc, NEW taken \in SUBSET Targets(p), CollectMentions(p, taken)
      PROVE  RoundInv'
  <2>1. /\ log' = log /\ messages' = messages /\ preMainSeen' = preMainSeen
        /\ trigger' = trigger /\ pc[p] = "reply" /\ pc' = [pc EXCEPT ![p] = "mention"]
        /\ mentions' = [mentions EXCEPT ![p] = taken]
      BY <1>14 DEF CollectMentions, Goto
  <2>2. \A t \in taken : t[1] \in Unseen(p)
      BY DEF Targets
  <2>3. ASSUME Noticing(p), NEW t \in taken
        PROVE  t[1] \in DOMAIN log /\ log[t[1]].re = trigger[p] /\ log[t[1]].by = p
      BY <2>1, <2>2, <2>3 DEF Unseen, RoundInv, CopyIsOwn
  <2>4. CopyIsOwn'
      BY <1>a, <2>1 DEF RoundInv, CopyIsOwn
  <2>5. MentionsAreOwn'
      BY <1>a, <2>1, <2>3 DEF RoundInv, MentionsAreOwn
  <2>6. ViasAreOwn'
      BY <2>1 DEF RoundInv, ViasAreOwn, OwnVia
  <2> QED
      BY <2>4, <2>5, <2>6 DEF RoundInv
<1>15. ASSUME NEW p \in Proc, NEW t \in mentions[p], MentionReply(p, t)
      PROVE  RoundInv'
  <2>1. \A q \in Proc : SameTurn(q)
      BY <1>a, <1>15 DEF SameTurn, MentionReply
  <2>2. CASE UNCHANGED <<log, messages>>
      BY <2>1, <2>2, RoundKept
  <2>3. ASSUME NEW at \in SUBSET Agents, Answer(p, t[2], at, t[1])
        PROVE  RoundInv'
      <3>1. t[2] \in Agents /\ t[1] \in Nat
          BY <1>a
      <3>2. PICK m : Answers(p, t[2], m) /\ m.via = t[1]
          BY <2>3, <3>1, AnswerVia DEF TypeOK
      <3>3. GrownBy(m) /\ OwnVia(m)
          BY <1>15, <3>2 DEF MentionReply, Answers, OwnVia, RoundInv, MentionsAreOwn
      <3>4. \A q \in Proc : \A i \in messages'[q] :
              i \in messages[q] \/ (i = Len(log) + 1 /\ m.re = trigger[q] /\ m.by = q)
          BY <1>a, <3>2 DEF Answers
      <3> QED
          BY <2>1, <3>3, <3>4, RoundGrown
  <2> QED
      BY <1>15, <2>2, <2>3 DEF MentionReply, PassOver
<1>16. ASSUME NEW p \in Proc, FinishTurn(p)
      PROVE  RoundInv'
  <2>1. log' = log
      BY <1>16 DEF FinishTurn, Unlock, Return, Forget, Goto
  <2>2. \A q \in Proc : SameTurn(q)
      BY <1>a, <1>16 DEF SameTurn, FinishTurn, Unlock, Return, Forget, Goto
  <2>3. \A q \in Proc : pc'[q] \in InTurn \ {"locked"} => messages'[q] \subseteq messages[q]
      BY <1>a, <1>16 DEF FinishTurn, Unlock, Return, Forget, Goto
  <2> QED
      BY <2>1, <2>2, <2>3, RoundKept
<1>17. ASSUME NEW p \in Proc, Die(p)
      PROVE  RoundInv'
  <2>1. log' = log
      BY <1>17 DEF Die, Forget, Goto
  <2>2. \A q \in Proc : SameTurn(q)
      BY <1>a, <1>17 DEF SameTurn, Die, Forget, Goto
  <2>3. \A q \in Proc : pc'[q] \in InTurn \ {"locked"} => messages'[q] \subseteq messages[q]
      BY <1>a, <1>17 DEF Die, Forget, Goto
  <2> QED
      BY <2>1, <2>2, <2>3, RoundKept
<1>18. CASE UNCHANGED vars
    BY <1>18, RoundKept DEF vars, SameTurn
<1> QED
    BY <1>1, <1>2, <1>3, <1>4, <1>5, <1>6, <1>7, <1>8, <1>9, <1>10, <1>11,
       <1>12, <1>13, <1>14, <1>15, <1>16, <1>17, <1>18
    DEF Next, ChatStep, TurnStep

(* Copies, mentions and answers are of their own turns in every state. *)
LEMMA RoundInvariance == Spec => []RoundInv
<1>1. Init => SeenUpToTrigger /\ RoundInv
    BY DEF Init, SeenUpToTrigger, RoundInv, CopyIsOwn, MentionsAreOwn,
           ViasAreOwn, InTurn
<1>2. TypeOK /\ LockOwned /\ SeenUpToTrigger /\ RoundInv /\ [Next]_vars
        => SeenUpToTrigger' /\ RoundInv'
    BY SeenStep, RoundStep
<1> QED
    BY <1>1, <1>2, TypeCorrect, LockOwnership, PTL DEF Spec

(* While no lines are typed into chats, the mention round of a turn        *)
(* answers only messages that the turn itself has written.                 *)
THEOREM MentionsOwnWithoutTyping ==
    ASSUME ~Typing
    PROVE  Spec => []MentionsOfThisTurn
<1>1. RoundInv => MentionsOfThisTurn
    BY DEF RoundInv, ViasAreOwn, OwnVia, Noticing, MentionsOfThisTurn
<1> QED
    BY <1>1, RoundInvariance, PTL

(* What a one-shot answers in its mention round, it has written itself,    *)
(* whatever is typed into the chats meanwhile.                             *)
OneShotMentionsOwn ==
    \A i \in DOMAIN log :
        log[i].via # 0 /\ log[i].by \in OneShots =>
            /\ log[log[i].via].re = log[i].re
            /\ log[log[i].via].by = log[i].by

(* Lines typed into chats do not confuse the mention rounds of             *)
(* `omgb group send` and of the posting handlers.                          *)
THEOREM OneShotsMentionOwn == Spec => []OneShotMentionsOwn
<1>1. RoundInv => OneShotMentionsOwn
    BY DEF RoundInv, ViasAreOwn, OwnVia, Noticing, OneShotMentionsOwn
<1> QED
    BY <1>1, RoundInvariance, PTL

=============================================================================
