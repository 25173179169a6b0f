--------------------------- MODULE LoadToolsProofs ---------------------------
(***************************************************************************)
(* Five load tools with their files, for every number of clients and of    *)
(* attempts and every size of the channels.  The invariants are: the types *)
(* with the queue; the counters and the places of the attempts; the result *)
(* file with the results that are on their way to it; and the file of      *)
(* tokens with the attempts that saw it empty.                             *)
(***************************************************************************)
EXTENDS LoadTools, FiniteSetTheorems, SequenceTheorems, TLAPS

-----------------------------------------------------------------------------
(* The stages of the tools *)

StageNames == {"dial", "opening", "answer", "request", "response", "body", "opening and answer",
               "login", "stat", "append"}

StageSet == [name: StageNames, deadline: BOOLEAN, harmless: BOOLEAN]

(* Stages that have nothing to do with the file of tokens.                 *)
Ordinary(s) ==
    s \in Seq(StageSet) /\ \A n \in 1..Len(s) : s[n].name \notin {"stat", "append"}

LEMMA OneStage ==
  ASSUME NEW a \in StageSet, a.name \notin {"stat", "append"}
  PROVE  Ordinary(<<a>>) /\ Len(<<a>>) = 1
BY DEF Ordinary

LEMMA TwoStages ==
  ASSUME NEW a \in StageSet, NEW b \in StageSet,
         a.name \notin {"stat", "append"}, b.name \notin {"stat", "append"}
  PROVE  Ordinary(<<a, b>>) /\ Len(<<a, b>>) = 2
<1>1. <<a, b>> \in Seq(StageSet) /\ Len(<<a, b>>) = 2 /\ <<a, b>>[1] = a /\ <<a, b>>[2] = b
  OBVIOUS
<1> QED
  BY <1>1 DEF Ordinary

LEMMA ThreeStages ==
  ASSUME NEW a \in StageSet, NEW b \in StageSet, NEW c \in StageSet,
         a.name \notin {"stat", "append"}, b.name \notin {"stat", "append"},
         c.name \notin {"stat", "append"}
  PROVE  Ordinary(<<a, b, c>>) /\ Len(<<a, b, c>>) = 3
<1>1. /\ <<a, b, c>> \in Seq(StageSet) /\ Len(<<a, b, c>>) = 3
      /\ <<a, b, c>>[1] = a /\ <<a, b, c>>[2] = b /\ <<a, b, c>>[3] = c
  OBVIOUS
<1> QED
  BY <1>1 DEF Ordinary

LEMMA OrdinaryConcat ==
  ASSUME NEW s, NEW t, Ordinary(s), Ordinary(t)
  PROVE  Ordinary(s \o t) /\ Len(s \o t) = Len(s) + Len(t)
<1>1. s \in Seq(StageSet) /\ t \in Seq(StageSet)
  BY DEF Ordinary
<1>2. /\ s \o t \in Seq(StageSet) /\ Len(s \o t) = Len(s) + Len(t)
      /\ \A i \in 1..(Len(s) + Len(t)) : (s \o t)[i] = IF i <= Len(s) THEN s[i] ELSE t[i - Len(s)]
  BY <1>1, ConcatProperties
<1>3. Len(s) \in Nat /\ Len(t) \in Nat
  BY <1>1, LenProperties
<1>4. ASSUME NEW n \in 1..Len(s \o t)
      PROVE  (s \o t)[n].name \notin {"stat", "append"}
  <2>1. CASE n <= Len(s)
    <3>1. n \in 1..Len(s) /\ (s \o t)[n] = s[n]
      BY <1>2, <1>3, <1>4, <2>1
    <3> QED
      BY <3>1 DEF Ordinary
  <2>2. CASE ~(n <= Len(s))
    <3>1. n - Len(s) \in 1..Len(t) /\ (s \o t)[n] = t[n - Len(s)]
      BY <1>2, <1>3, <1>4, <2>2
    <3> QED
      BY <3>1 DEF Ordinary
  <2> QED
    BY <2>1, <2>2
<1> QED
  BY <1>2, <1>4 DEF Ordinary

LEMMA PartsOfAttempts ==
  /\ Ordinary(EMMProxyTunnel) /\ Len(EMMProxyTunnel) = 3
  /\ Ordinary(EMMProxyBusiness) /\ Len(EMMProxyBusiness) = 2
  /\ Ordinary(EMMProxy2Tunnel) /\ Len(EMMProxy2Tunnel) = 3
  /\ Ordinary(EMMProxy2Download) /\ Len(EMMProxy2Download) = 2
  /\ Ordinary(EMMProxy2Body) /\ Len(EMMProxy2Body) = 1
  /\ Ordinary(TLSTestTunnel) /\ Len(TLSTestTunnel) = 2
  /\ Ordinary(TLSTestBusiness) /\ Len(TLSTestBusiness) = 2
  /\ Ordinary(QUICAuth) /\ Len(QUICAuth) = 1
  /\ Ordinary(QUICSend) /\ Len(QUICSend) = 1
  /\ Ordinary(QUICAnswer) /\ Len(QUICAnswer) = 1
  /\ Ordinary(KerberosLogin) /\ Len(KerberosLogin) = 1
<1>1. Ordinary(EMMProxyTunnel) /\ Len(EMMProxyTunnel) = 3
  <2>1. PICK a, b, c :
           /\ a = Stage("dial", TRUE, FALSE)
           /\ b = Stage("opening", FALSE, FALSE)
           /\ c = Stage("answer", TRUE, FALSE)
    OBVIOUS
  <2>2. a \in StageSet /\ a.name = "dial"
    BY <2>1 DEF Stage, StageSet, StageNames
  <2>3. b \in StageSet /\ b.name = "opening"
    BY <2>1 DEF Stage, StageSet, StageNames
  <2>4. c \in StageSet /\ c.name = "answer"
    BY <2>1 DEF Stage, StageSet, StageNames
  <2>5. EMMProxyTunnel = <<a, b, c>>
    BY <2>1 DEF EMMProxyTunnel
  <2> QED
    BY <2>2, <2>3, <2>4, <2>5, ThreeStages
<1>2. Ordinary(EMMProxyBusiness) /\ Len(EMMProxyBusiness) = 2
  <2>1. PICK a, b :
           /\ a = Stage("request", FALSE, FALSE)
           /\ b = Stage("response", TRUE, FALSE)
    OBVIOUS
  <2>2. a \in StageSet /\ a.name = "request"
    BY <2>1 DEF Stage, StageSet, StageNames
  <2>3. b \in StageSet /\ b.name = "response"
    BY <2>1 DEF Stage, StageSet, StageNames
  <2>4. EMMProxyBusiness = <<a, b>>
    BY <2>1 DEF EMMProxyBusiness
  <2> QED
    BY <2>2, <2>3, <2>4, TwoStages
<1>3. Ordinary(EMMProxy2Tunnel) /\ Len(EMMProxy2Tunnel) = 3
  <2>1. PICK a, b, c :
           /\ a = Stage("dial", TRUE, FALSE)
           /\ b = Stage("opening", FALSE, FALSE)
           /\ c = Stage("answer", TRUE, FALSE)
    OBVIOUS
  <2>2. a \in StageSet /\ a.name = "dial"
    BY <2>1 DEF Stage, StageSet, StageNames
  <2>3. b \in StageSet /\ b.name = "opening"
    BY <2>1 DEF Stage, StageSet, StageNames
  <2>4. c \in StageSet /\ c.name = "answer"
    BY <2>1 DEF Stage, StageSet, StageNames
  <2>5. EMMProxy2Tunnel = <<a, b, c>>
    BY <2>1 DEF EMMProxy2Tunnel
  <2> QED
    BY <2>2, <2>3, <2>4, <2>5, ThreeStages
<1>4. Ordinary(EMMProxy2Download) /\ Len(EMMProxy2Download) = 2
  <2>1. PICK a, b :
           /\ a = Stage("request", FALSE, FALSE)
           /\ b = Stage("response", TRUE, FALSE)
    OBVIOUS
  <2>2. a \in StageSet /\ a.name = "request"
    BY <2>1 DEF Stage, StageSet, StageNames
  <2>3. b \in StageSet /\ b.name = "response"
    BY <2>1 DEF Stage, StageSet, StageNames
  <2>4. EMMProxy2Download = <<a, b>>
    BY <2>1 DEF EMMProxy2Download
  <2> QED
    BY <2>2, <2>3, <2>4, TwoStages
<1>5. Ordinary(EMMProxy2Body) /\ Len(EMMProxy2Body) = 1
  <2>1. PICK a : a = Stage("body", TRUE, FALSE)
    OBVIOUS
  <2>2. a \in StageSet /\ a.name = "body"
    BY <2>1 DEF Stage, StageSet, StageNames
  <2>3. EMMProxy2Body = <<a>>
    BY <2>1 DEF EMMProxy2Body
  <2> QED
    BY <2>2, <2>3, OneStage
<1>6. Ordinary(TLSTestTunnel) /\ Len(TLSTestTunnel) = 2
  <2>1. PICK a, b :
           /\ a = Stage("dial", TRUE, FALSE)
           /\ b = Stage("opening and answer", TRUE, FALSE)
    OBVIOUS
  <2>2. a \in StageSet /\ a.name = "dial"
    BY <2>1 DEF Stage, StageSet, StageNames
  <2>3. b \in StageSet /\ b.name = "opening and answer"
    BY <2>1 DEF Stage, StageSet, StageNames
  <2>4. TLSTestTunnel = <<a, b>>
    BY <2>1 DEF TLSTestTunnel
  <2> QED
    BY <2>2, <2>3, <2>4, TwoStages
<1>7. Ordinary(TLSTestBusiness) /\ Len(TLSTestBusiness) = 2
  <2>1. PICK a, b :
           /\ a = Stage("request", TRUE, TRUE)
           /\ b = Stage("response", TRUE, TRUE)
    OBVIOUS
  <2>2. a \in StageSet /\ a.name = "request"
    BY <2>1 DEF Stage, StageSet, StageNames
  <2>3. b \in StageSet /\ b.name = "response"
    BY <2>1 DEF Stage, StageSet, StageNames
  <2>4. TLSTestBusiness = <<a, b>>
    BY <2>1 DEF TLSTestBusiness
  <2> QED
    BY <2>2, <2>3, <2>4, TwoStages
<1>8. Ordinary(QUICAuth) /\ Len(QUICAuth) = 1
  <2>1. PICK a : a = Stage("dial", TRUE, FALSE)
    OBVIOUS
  <2>2. a \in StageSet /\ a.name = "dial"
    BY <2>1 DEF Stage, StageSet, StageNames
  <2>3. QUICAuth = <<a>>
    BY <2>1 DEF QUICAuth
  <2> QED
    BY <2>2, <2>3, OneStage
<1>9. Ordinary(QUICSend) /\ Len(QUICSend) = 1
  <2>1. PICK a : a = Stage("request", TRUE, FALSE)
    OBVIOUS
  <2>2. a \in StageSet /\ a.name = "request"
    BY <2>1 DEF Stage, StageSet, StageNames
  <2>3. QUICSend = <<a>>
    BY <2>1 DEF QUICSend
  <2> QED
    BY <2>2, <2>3, OneStage
<1>10. Ordinary(QUICAnswer) /\ Len(QUICAnswer) = 1
  <2>1. PICK a : a = Stage("answer", TRUE, FALSE)
    OBVIOUS
  <2>2. a \in StageSet /\ a.name = "answer"
    BY <2>1 DEF Stage, StageSet, StageNames
  <2>3. QUICAnswer = <<a>>
    BY <2>1 DEF QUICAnswer
  <2> QED
    BY <2>2, <2>3, OneStage
<1>11. Ordinary(KerberosLogin) /\ Len(KerberosLogin) = 1
  <2>1. PICK a : a = Stage("login", TRUE, FALSE)
    OBVIOUS
  <2>2. a \in StageSet /\ a.name = "login"
    BY <2>1 DEF Stage, StageSet, StageNames
  <2>3. KerberosLogin = <<a>>
    BY <2>1 DEF KerberosLogin
  <2> QED
    BY <2>2, <2>3, OneStage
<1> QED
  BY <1>1, <1>2, <1>3, <1>4, <1>5, <1>6, <1>7, <1>8, <1>9, <1>10, <1>11

(* An attempt has at most eight stages; only those of quic-client touch     *)
(* the file of tokens, and they look at it before they append.             *)
StagesFit(stages) ==
    /\ stages \in Seq(StageSet) /\ Len(stages) \in 1..8
    /\ \A n \in 1..Len(stages) : stages[n].name = "append" => n > 1 /\ stages[n - 1].name = "stat"

LEMMA OrdinaryFits ==
  ASSUME NEW s, Ordinary(s), Len(s) \in 1..8
  PROVE  StagesFit(s)
BY DEF Ordinary, StagesFit

LEMMA QUICFits ==
  StagesFit(QUICAuth \o QUICSend \o QUICAnswer \o QUICToken)
<1>1. PICK front : front = QUICAuth \o QUICSend \o QUICAnswer
  OBVIOUS
<1>2. Ordinary(front) /\ Len(front) = 3
  <2>1. Ordinary(QUICAuth \o QUICSend) /\ Len(QUICAuth \o QUICSend) = Len(QUICAuth) + Len(QUICSend)
    BY PartsOfAttempts, OrdinaryConcat
  <2>2. Ordinary(front) /\ Len(front) = Len(QUICAuth \o QUICSend) + Len(QUICAnswer)
    BY <1>1, <2>1, PartsOfAttempts, OrdinaryConcat
  <2> QED
    BY <2>1, <2>2, PartsOfAttempts
<1>3. PICK a, b :
         /\ a = Stage("stat", TRUE, TRUE)
         /\ b = Stage("append", TRUE, TRUE)
  OBVIOUS
<1>4. a \in StageSet /\ a.name = "stat"
  BY <1>3 DEF Stage, StageSet, StageNames
<1>5. b \in StageSet /\ b.name = "append"
  BY <1>3 DEF Stage, StageSet, StageNames
<1>6. PICK last : last = <<a, b>>
  OBVIOUS
<1>7. QUICToken = last
  BY <1>3, <1>6 DEF QUICToken
<1>8. last \in Seq(StageSet) /\ Len(last) = 2 /\ last[1] = a /\ last[2] = b
  BY <1>4, <1>5, <1>6
<1>9. front \in Seq(StageSet)
  BY <1>2 DEF Ordinary
<1>10. /\ front \o last \in Seq(StageSet) /\ Len(front \o last) = Len(front) + Len(last)
       /\ \A i \in 1..(Len(front) + Len(last)) :
             (front \o last)[i] = IF i <= Len(front) THEN front[i] ELSE last[i - Len(front)]
  BY <1>8, <1>9, ConcatProperties
<1>11. PICK all : all = front \o last
  OBVIOUS
<1>12. all \in Seq(StageSet) /\ Len(all) = 5
  BY <1>2, <1>8, <1>10, <1>11
<1>13. \A i \in 1..3 : all[i].name # "append"
  BY <1>2, <1>8, <1>10, <1>11 DEF Ordinary
<1>14. all[4] = a /\ all[5] = b
  BY <1>2, <1>8, <1>10, <1>11
<1>15. StagesFit(all)
  <2>1. ASSUME NEW n \in 1..5, all[n].name = "append"
        PROVE  n > 1 /\ all[n - 1].name = "stat"
    <3>1. n \notin {1, 2, 3, 4}
      BY <2>1, <1>13, <1>14, <1>4
    <3>2. n = 5 /\ n - 1 = 4
      BY <3>1
    <3> QED
      BY <3>2, <1>14, <1>4
  <2> QED
    BY <1>12, <2>1 DEF StagesFit
<1> QED
  BY <1>1, <1>7, <1>11, <1>15

-----------------------------------------------------------------------------
(* The kinds of tools *)

LEMMA ToolFacts ==
  ASSUME ToolsAssumption, tool \in Tools
  PROVE  /\ tool.name \in {"EMMProxy", "EMMProxy-2", "TLS-Test", "quic-client", "sgp-xcad"}
         /\ tool.clients \in Nat \ {0} /\ tool.tasks \in 1..MaxTasks
         /\ MaxTasks \in Nat \ {0} /\ BufferSize \in Nat \ {0} /\ BatchSize \in Nat \ {0}
BY DEF ToolsAssumption, WriterAssumption

LEMMA StagesOfTools ==
  /\ StagesFit(EMMProxyTunnel \o EMMProxyBusiness)
  /\ Ordinary(EMMProxyTunnel \o EMMProxyBusiness)
  /\ StagesFit(EMMProxy2Tunnel \o EMMProxy2Download \o EMMProxy2Body)
  /\ Ordinary(EMMProxy2Tunnel \o EMMProxy2Download \o EMMProxy2Body)
  /\ StagesFit(TLSTestTunnel \o TLSTestBusiness)
  /\ StagesFit(KerberosLogin)
<1>1. Ordinary(EMMProxyTunnel \o EMMProxyBusiness) /\ Len(EMMProxyTunnel \o EMMProxyBusiness) = 5
  <2>1. /\ Ordinary(EMMProxyTunnel \o EMMProxyBusiness)
        /\ Len(EMMProxyTunnel \o EMMProxyBusiness) = Len(EMMProxyTunnel) + Len(EMMProxyBusiness)
    BY PartsOfAttempts, OrdinaryConcat
  <2> QED
    BY <2>1, PartsOfAttempts
<1>2. Ordinary(EMMProxy2Tunnel \o EMMProxy2Download) /\ Len(EMMProxy2Tunnel \o EMMProxy2Download) = 5
  <2>1. /\ Ordinary(EMMProxy2Tunnel \o EMMProxy2Download)
        /\ Len(EMMProxy2Tunnel \o EMMProxy2Download) = Len(EMMProxy2Tunnel) + Len(EMMProxy2Download)
    BY PartsOfAttempts, OrdinaryConcat
  <2> QED
    BY <2>1, PartsOfAttempts
<1>3. Ordinary(TLSTestTunnel \o TLSTestBusiness) /\ Len(TLSTestTunnel \o TLSTestBusiness) = 4
  <2>1. /\ Ordinary(TLSTestTunnel \o TLSTestBusiness)
        /\ Len(TLSTestTunnel \o TLSTestBusiness) = Len(TLSTestTunnel) + Len(TLSTestBusiness)
    BY PartsOfAttempts, OrdinaryConcat
  <2> QED
    BY <2>1, PartsOfAttempts
<1>4. /\ Ordinary(EMMProxy2Tunnel \o EMMProxy2Download \o EMMProxy2Body)
      /\ Len(EMMProxy2Tunnel \o EMMProxy2Download \o EMMProxy2Body) = 6
  <2>1. /\ Ordinary(EMMProxy2Tunnel \o EMMProxy2Download \o EMMProxy2Body)
        /\ Len(EMMProxy2Tunnel \o EMMProxy2Download \o EMMProxy2Body)
             = Len(EMMProxy2Tunnel \o EMMProxy2Download) + Len(EMMProxy2Body)
    BY <1>2, PartsOfAttempts, OrdinaryConcat
  <2> QED
    BY <1>2, <2>1, PartsOfAttempts
<1>5. \A s : Ordinary(s) /\ Len(s) \in {1, 4, 5, 6} => StagesFit(s)
  BY OrdinaryFits
<1> QED
  BY <1>1, <1>3, <1>4, <1>5, PartsOfAttempts

(* Only a tool with a channel records its attempts, and only the one that  *)
(* has a file of tokens has stages that touch it.                          *)
KindFits(k) ==
    /\ k.timed \in BOOLEAN /\ k.pooled \in BOOLEAN /\ k.recorded \in BOOLEAN
    /\ k.recorded => k.pooled
    /\ StagesFit(k.stages)

LEMMA KindIs ==
  ASSUME NEW timed, timed \in BOOLEAN, NEW pooled, pooled \in BOOLEAN,
         NEW recorded, recorded \in BOOLEAN, recorded => pooled, NEW stages, StagesFit(stages)
  PROVE  KindFits(Kind(timed, pooled, recorded, stages))
BY DEF Kind, KindFits

LEMMA KindFacts ==
  ASSUME ToolsAssumption, tool \in Tools
  PROVE  /\ KindFits(kind)
         /\ kind.pooled => \A n \in 1..Len(kind.stages) : kind.stages[n].name \notin {"stat", "append"}
<1>1. PICK yes, no : yes = TRUE /\ no = FALSE
  OBVIOUS
<1>2. yes \in BOOLEAN /\ no \in BOOLEAN
  BY <1>1
<1>3. CASE tool.name = "EMMProxy"
  <2>1. PICK stages : stages = EMMProxyTunnel \o EMMProxyBusiness
    OBVIOUS
  <2>2. StagesFit(stages) /\ Ordinary(stages)
    BY <2>1, StagesOfTools
  <2>3. kind = Kind(yes, yes, yes, stages)
    BY <1>1, <1>3, <2>1 DEF kind, KindOfTool, EMMProxyRun
  <2> QED
    BY <1>1, <1>2, <2>2, <2>3, KindIs DEF Kind, Ordinary
<1>4. CASE tool.name = "EMMProxy-2"
  <2>1. PICK stages : stages = EMMProxy2Tunnel \o EMMProxy2Download \o EMMProxy2Body
    OBVIOUS
  <2>2. StagesFit(stages) /\ Ordinary(stages)
    BY <2>1, StagesOfTools
  <2>3. kind = Kind(no, yes, no, stages)
    BY <1>1, <1>4, <2>1 DEF kind, KindOfTool, EMMProxy2Run
  <2> QED
    BY <1>1, <1>2, <2>2, <2>3, KindIs DEF Kind, Ordinary
<1>5. CASE tool.name = "TLS-Test"
  <2>1. PICK stages : stages = TLSTestTunnel \o TLSTestBusiness
    OBVIOUS
  <2>2. StagesFit(stages)
    BY <2>1, StagesOfTools
  <2>3. kind = Kind(yes, no, no, stages)
    BY <1>1, <1>5, <2>1 DEF kind, KindOfTool, TLSTestRun
  <2> QED
    BY <1>1, <1>2, <2>2, <2>3, KindIs DEF Kind
<1>6. CASE tool.name = "quic-client"
  <2>1. PICK stages : stages = QUICAuth \o QUICSend \o QUICAnswer \o QUICToken
    OBVIOUS
  <2>2. StagesFit(stages)
    BY <2>1, QUICFits
  <2>3. kind = Kind(yes, no, no, stages)
    BY <1>1, <1>6, <2>1 DEF kind, KindOfTool, QUICClientRun
  <2> QED
    BY <1>1, <1>2, <2>2, <2>3, KindIs DEF Kind
<1>7. CASE tool.name = "sgp-xcad"
  <2>1. PICK stages : stages = KerberosLogin
    OBVIOUS
  <2>2. StagesFit(stages)
    BY <2>1, StagesOfTools
  <2>3. kind = Kind(no, no, no, stages)
    BY <1>1, <1>7, <2>1 DEF kind, KindOfTool, KerberosRun
  <2> QED
    BY <1>1, <1>2, <2>2, <2>3, KindIs DEF Kind
<1> QED
  BY <1>3, <1>4, <1>5, <1>6, <1>7, ToolFacts

-----------------------------------------------------------------------------
(* The first invariant *)

Places == {"none", "queued", "running", "recording", "counting", "releasing", "leaving", "done"}
MainPlaces == {"loop", "sending", "waiting", "reported", "ended"}
Lines == {"token_id", "token"}

Handed == Tasks \ InState({"none"})

(* Tasks are handed out in their order, each once.                         *)
HandedOut ==
    /\ Sent \in 0..tool.tasks
    /\ \A i \in Tasks : i \in Handed <=> i < Sent
    /\ toolMain = "sending" => Sent < tool.tasks

(* The channel holds tasks that nobody has taken, none of them twice.      *)
QueueHolds ==
    /\ \A n \in 1..Len(queue) : attempt[queue[n]].at = "queued"
    /\ \A m, n \in 1..Len(queue) : queue[m] = queue[n] => m = n
    /\ ~kind.pooled => queue = <<>>

StagesExist == \A i \in Tasks : attempt[i].stage <= Len(kind.stages)

Typed ==
    /\ tool \in Tools /\ toolMain \in MainPlaces /\ expired \in BOOLEAN
    /\ queue \in Seq(Tasks) /\ Len(queue) <= 2 * tool.clients
    /\ attempt \in [Tasks -> AttemptRecord]
    /\ counts \in [success: Nat, fail: Nat]
    /\ tokens \in Seq(Lines)
    /\ WriterTypeOK(Tasks)
    /\ HandedOut /\ QueueHolds /\ StagesExist

LEMMA TasksFacts ==
  ASSUME ToolsAssumption, tool \in Tools
  PROVE  /\ \A i : i \in Tasks <=> i \in Nat /\ i < MaxTasks
         /\ IsFiniteSet(Tasks)
         /\ tool.tasks \in Nat /\ tool.tasks <= MaxTasks /\ MaxTasks \in Nat
<1>1. MaxTasks \in Nat \ {0} /\ tool.tasks \in 1..MaxTasks
  BY ToolFacts
<1>2. IsFiniteSet(Tasks)
  BY <1>1, FS_Interval DEF Tasks
<1> QED
  BY <1>1, <1>2 DEF Tasks

(* The tasks below n are n tasks.                                          *)
LEMMA Below ==
  ASSUME ToolsAssumption, tool \in Tools, NEW n \in Nat, n <= MaxTasks,
         NEW S, S \subseteq Tasks, \A i \in Tasks : i \in S <=> i < n
  PROVE  Cardinality(S) = n
<1>1. S = 0..(n - 1)
  <2>1. \A i : i \in S <=> i \in Tasks /\ i < n
    OBVIOUS
  <2>2. \A i : i \in 0..(n - 1) <=> i \in Nat /\ i < n
    OBVIOUS
  <2>3. \A i : i \in Tasks /\ i < n <=> i \in Nat /\ i < n
    BY TasksFacts
  <2> QED
    BY <2>1, <2>2, <2>3
<1>2. Cardinality(0..(n - 1)) = IF 0 > n - 1 THEN 0 ELSE (n - 1) - 0 + 1
  <2>1. 0 \in Int /\ n - 1 \in Int
    OBVIOUS
  <2> QED
    BY <2>1, FS_Interval
<1> QED
  BY <1>1, <1>2

LEMMA AttemptFields ==
  ASSUME NEW a \in AttemptRecord
  PROVE  /\ a.at \in Places /\ a.stage \in 1..8 /\ a.ok \in BOOLEAN
         /\ a.tries \in 1..MaxRetries /\ a.empty \in BOOLEAN
BY DEF AttemptRecord, Places

(* Setting the fields of an attempt, one at a time.                        *)
SetAt(a, x) == [a EXCEPT !.at = x]
SetStage(a, x) == [a EXCEPT !.stage = x]
SetOk(a, x) == [a EXCEPT !.ok = x]
SetTries(a, x) == [a EXCEPT !.tries = x]
SetEmpty(a, x) == [a EXCEPT !.empty = x]

LEMMA SetAtFacts ==
  ASSUME NEW a \in AttemptRecord, NEW x, x \in Places
  PROVE  /\ SetAt(a, x) \in AttemptRecord
         /\ SetAt(a, x).at = x /\ SetAt(a, x).stage = a.stage
         /\ SetAt(a, x).ok = a.ok /\ SetAt(a, x).empty = a.empty
BY DEF SetAt, AttemptRecord, Places

LEMMA SetStageFacts ==
  ASSUME NEW a \in AttemptRecord, NEW x, x \in 1..8
  PROVE  /\ SetStage(a, x) \in AttemptRecord
         /\ SetStage(a, x).at = a.at /\ SetStage(a, x).stage = x
         /\ SetStage(a, x).ok = a.ok /\ SetStage(a, x).empty = a.empty
BY DEF SetStage, AttemptRecord, Places

LEMMA SetOkFacts ==
  ASSUME NEW a \in AttemptRecord, NEW x, x \in BOOLEAN
  PROVE  /\ SetOk(a, x) \in AttemptRecord
         /\ SetOk(a, x).at = a.at /\ SetOk(a, x).stage = a.stage
         /\ SetOk(a, x).ok = x /\ SetOk(a, x).empty = a.empty
BY DEF SetOk, AttemptRecord, Places

LEMMA SetTriesFacts ==
  ASSUME NEW a \in AttemptRecord, NEW x, x \in 1..MaxRetries
  PROVE  /\ SetTries(a, x) \in AttemptRecord
         /\ SetTries(a, x).at = a.at /\ SetTries(a, x).stage = a.stage
         /\ SetTries(a, x).ok = a.ok /\ SetTries(a, x).empty = a.empty
BY DEF SetTries, AttemptRecord, Places

LEMMA SetEmptyFacts ==
  ASSUME NEW a \in AttemptRecord, NEW x, x \in BOOLEAN
  PROVE  /\ SetEmpty(a, x) \in AttemptRecord
         /\ SetEmpty(a, x).at = a.at /\ SetEmpty(a, x).stage = a.stage
         /\ SetEmpty(a, x).ok = a.ok /\ SetEmpty(a, x).empty = x
BY DEF SetEmpty, AttemptRecord, Places

LEMMA NoAttemptIs ==
  /\ NoAttempt \in AttemptRecord /\ NoAttempt.at = "none" /\ NoAttempt.stage = 1
  /\ NoAttempt.ok = FALSE /\ NoAttempt.empty = FALSE
<1>1. PICK no : no = FALSE
  OBVIOUS
<1>2. NoAttempt = [at |-> "none", stage |-> 1, ok |-> no, tries |-> 1, empty |-> no]
  BY <1>1 DEF NoAttempt
<1>3. no \in BOOLEAN
  BY <1>1
<1>4. [at |-> "none", stage |-> 1, ok |-> no, tries |-> 1, empty |-> no] \in AttemptRecord
  BY <1>3 DEF AttemptRecord, MaxRetries
<1> QED
  BY <1>1, <1>2, <1>4

OverPlace == IF kind.recorded THEN "recording" ELSE "counting"

LEMMA OverFacts ==
  ASSUME NEW i, NEW ok, ok \in BOOLEAN
  PROVE  /\ Over(i, ok) \in AttemptRecord /\ Over(i, ok).at = OverPlace
         /\ Over(i, ok).ok = ok /\ Over(i, ok).empty = FALSE /\ Over(i, ok).stage = 1
<1>1. PICK place : place = OverPlace
  OBVIOUS
<1>2. place \in Places
  BY <1>1 DEF OverPlace, Places
<1>3. PICK a : a = SetOk(NoAttempt, ok)
  OBVIOUS
<1>4. a \in AttemptRecord /\ a.ok = ok /\ a.empty = FALSE /\ a.stage = 1
  BY <1>3, NoAttemptIs, SetOkFacts
<1>5. Over(i, ok) = SetAt(a, place)
  BY <1>1, <1>3 DEF Over, OverPlace, SetAt, SetOk
<1>6. SetAt(a, place) \in AttemptRecord /\ SetAt(a, place).at = place
  BY <1>2, <1>4, SetAtFacts
<1>7. SetAt(a, place).ok = ok /\ SetAt(a, place).empty = FALSE /\ SetAt(a, place).stage = 1
  BY <1>2, <1>4, SetAtFacts
<1> QED
  BY <1>1, <1>5, <1>6, <1>7

-----------------------------------------------------------------------------
(* What a step does to an attempt *)

Others(i) ==
    /\ attempt' \in [Tasks -> AttemptRecord]
    /\ \A j \in Tasks \ {i} : attempt'[j] = attempt[j]

Moved(i, at) ==
    /\ Others(i)
    /\ attempt'[i].at = at /\ attempt'[i].stage = attempt[i].stage
    /\ attempt'[i].ok = attempt[i].ok /\ attempt'[i].empty = attempt[i].empty

LEMMA Replaced ==
  ASSUME Typed, NEW i \in Tasks, NEW a \in AttemptRecord, attempt' = [attempt EXCEPT ![i] = a]
  PROVE  Others(i) /\ attempt'[i] = a
BY DEF Typed, Others

LEMMA MovesFacts ==
  ASSUME Typed, NEW i \in Tasks, NEW at, at \in Places, Moves(i, at)
  PROVE  Moved(i, at)
<1>1. attempt[i] \in AttemptRecord
  BY DEF Typed
<1>2. PICK a : a = SetAt(attempt[i], at)
  OBVIOUS
<1>3. /\ a \in AttemptRecord /\ a.at = at /\ a.stage = attempt[i].stage
      /\ a.ok = attempt[i].ok /\ a.empty = attempt[i].empty
  BY <1>1, <1>2, SetAtFacts
<1>4. attempt' = [attempt EXCEPT ![i] = a]
  BY <1>2 DEF Moves, SetAt
<1>5. Others(i) /\ attempt'[i] = a
  BY <1>3, <1>4, Replaced
<1> QED
  BY <1>3, <1>5 DEF Moved

LEMMA NowFacts ==
  ASSUME ToolsAssumption, Typed, NEW i \in Tasks, attempt[i].at = "running"
  PROVE  /\ attempt[i] \in AttemptRecord
         /\ attempt[i].stage \in 1..Len(kind.stages) /\ Len(kind.stages) \in 1..8
         /\ Now(i).harmless \in BOOLEAN
         /\ Now(i).name = "append" =>
               attempt[i].stage > 1 /\ kind.stages[attempt[i].stage - 1].name = "stat"
<1>1. attempt[i] \in AttemptRecord /\ attempt[i].stage <= Len(kind.stages)
  BY DEF Typed, StagesExist
<1>2. attempt[i].stage \in 1..8
  BY <1>1, AttemptFields
<1>3. StagesFit(kind.stages)
  BY KindFacts DEF Typed, KindFits
<1>4. kind.stages \in Seq(StageSet) /\ Len(kind.stages) \in 1..8
  BY <1>3 DEF StagesFit
<1>5. attempt[i].stage \in 1..Len(kind.stages)
  BY <1>1, <1>2, <1>4
<1>6. Now(i) \in StageSet
  BY <1>4, <1>5, ElementOfSeq DEF Now
<1>7. Now(i).harmless \in BOOLEAN
  BY <1>6 DEF StageSet
<1> QED
  BY <1>1, <1>3, <1>4, <1>5, <1>7 DEF StagesFit, Now

(* Whatever happens in a conversation, the attempt runs on or is over.     *)
Conversed(i) ==
    /\ attempt[i].at = "running"
    /\ Others(i)
    /\ attempt'[i].at \in {"running", OverPlace} /\ attempt'[i].stage <= Len(kind.stages)
    /\ UNCHANGED <<toolMain, expired, queue, counts, writerVars>>

LEMMA FurtherFacts ==
  ASSUME ToolsAssumption, Typed, NEW i \in Tasks, attempt[i].at = "running"
  PROVE  /\ Further(i) \in AttemptRecord
         /\ Further(i).stage <= Len(kind.stages)
         /\ \/ /\ Further(i).at = "running" /\ Further(i).stage = attempt[i].stage + 1
               /\ Further(i).empty = attempt[i].empty
            \/ Further(i).at = OverPlace
<1>1. PICK yes : yes = TRUE
  OBVIOUS
<1>2. CASE attempt[i].stage = Len(kind.stages)
  <2>1. Further(i) = Over(i, yes)
    BY <1>1, <1>2 DEF Further
  <2>2. 1 <= Len(kind.stages)
    BY NowFacts
  <2> QED
    BY <1>1, <2>1, <2>2, OverFacts
<1>3. CASE attempt[i].stage # Len(kind.stages)
  <2>1. PICK n : n = attempt[i].stage + 1
    OBVIOUS
  <2>2. n \in 1..8 /\ n <= Len(kind.stages)
    <3>1. PICK at, all : at = attempt[i].stage /\ all = Len(kind.stages)
      OBVIOUS
    <3>2. all \in 1..8 /\ at \in 1..all
      BY <3>1, NowFacts
    <3>3. at # all /\ n = at + 1
      BY <1>3, <2>1, <3>1
    <3>4. n \in 1..8 /\ n <= all
      BY <3>2, <3>3
    <3> QED
      BY <3>1, <3>4
  <2>3. Further(i) = SetStage(attempt[i], n)
    BY <1>3, <2>1 DEF Further, SetStage
  <2> QED
    BY <2>1, <2>2, <2>3, NowFacts, SetStageFacts
<1> QED
  BY <1>2, <1>3

LEMMA ConverseFacts ==
  ASSUME ToolsAssumption, Typed, NEW i \in Tasks, Converse(i)
  PROVE  Conversed(i)
<1>1. attempt[i].at = "running"
  BY DEF Converse, Passes, DialsAgain, Fails, StatTokens, AppendToken, In
<1>2. UNCHANGED <<toolMain, expired, queue, counts, writerVars>>
  BY DEF Converse, Passes, DialsAgain, Fails, StatTokens, AppendToken
<1>3. ASSUME NEW a \in AttemptRecord, attempt' = [attempt EXCEPT ![i] = a],
             a.at \in {"running", OverPlace}, a.stage <= Len(kind.stages)
      PROVE  Conversed(i)
  BY <1>1, <1>2, <1>3, Replaced DEF Conversed
<1>4. CASE Passes(i) \/ AppendToken(i)
  <2>1. attempt' = [attempt EXCEPT ![i] = Further(i)]
    BY <1>4 DEF Passes, AppendToken
  <2> QED
    BY <1>1, <1>3, <2>1, FurtherFacts
<1>5. CASE DialsAgain(i)
  <2>1. PICK n : n = attempt[i].tries + 1
    OBVIOUS
  <2>2. attempt[i].tries \in 1..3 /\ attempt[i].tries < 3
    BY <1>1, <1>5, NowFacts, AttemptFields DEF DialsAgain, MaxRetries
  <2>3. n \in 1..MaxRetries
    BY <2>1, <2>2 DEF MaxRetries
  <2>4. attempt' = [attempt EXCEPT ![i] = SetTries(attempt[i], n)]
    BY <1>5, <2>1 DEF DialsAgain, SetTries
  <2>5. /\ SetTries(attempt[i], n) \in AttemptRecord /\ SetTries(attempt[i], n).at = "running"
        /\ SetTries(attempt[i], n).stage <= Len(kind.stages)
    BY <1>1, <2>3, NowFacts, SetTriesFacts
  <2> QED
    BY <1>3, <2>4, <2>5
<1>6. CASE Fails(i)
  <2>1. PICK ok : ok = Now(i).harmless
    OBVIOUS
  <2>2. ok \in BOOLEAN
    BY <1>1, <2>1, NowFacts
  <2>3. attempt' = [attempt EXCEPT ![i] = Over(i, ok)]
    BY <1>6, <2>1 DEF Fails
  <2>4. 1 <= Len(kind.stages)
    BY <1>1, NowFacts
  <2> QED
    BY <1>3, <2>2, <2>3, <2>4, OverFacts
<1>7. CASE StatTokens(i)
  <2>1. PICK b : b = (tokens = <<>>)
    OBVIOUS
  <2>2. b \in BOOLEAN
    BY <2>1
  <2>3. PICK a : a = Further(i)
    OBVIOUS
  <2>4. a \in AttemptRecord /\ a.at \in {"running", OverPlace} /\ a.stage <= Len(kind.stages)
    BY <1>1, <2>3, FurtherFacts
  <2>5. attempt' = [attempt EXCEPT ![i] = SetEmpty(a, b)]
    BY <1>7, <2>1, <2>3 DEF StatTokens, SetEmpty
  <2>6. /\ SetEmpty(a, b) \in AttemptRecord /\ SetEmpty(a, b).at = a.at
        /\ SetEmpty(a, b).stage = a.stage
    BY <2>2, <2>4, SetEmptyFacts
  <2> QED
    BY <1>3, <2>4, <2>5, <2>6
<1> QED
  BY <1>4, <1>5, <1>6, <1>7 DEF Converse

-----------------------------------------------------------------------------
(* The types are kept *)

LEMMA SentFacts ==
  ASSUME ToolsAssumption, Typed
  PROVE  /\ Sent \in Nat /\ Sent <= tool.tasks /\ Handed \subseteq Tasks
         /\ \A i \in Tasks : attempt[i].at # "none" <=> i < Sent
         /\ toolMain = "sending" => Sent \in Tasks /\ Sent < tool.tasks /\ attempt[Sent].at = "none"
<1>1. Sent \in 0..tool.tasks /\ tool.tasks \in Nat /\ tool.tasks <= MaxTasks
  BY TasksFacts DEF Typed, HandedOut
<1>2. \A i \in Tasks : attempt[i].at # "none" <=> i < Sent
  BY DEF Typed, HandedOut, Handed, InState
<1>3. ASSUME toolMain = "sending"
      PROVE  Sent \in Tasks /\ Sent < tool.tasks
  <2>1. PICK n, m, all : n = Sent /\ m = tool.tasks /\ all = MaxTasks
    OBVIOUS
  <2>2. n < m
    BY <1>3, <2>1 DEF Typed, HandedOut
  <2>3. m \in Nat /\ n \in 0..m /\ m <= all /\ all \in Nat
    BY <1>1, <2>1, TasksFacts DEF Typed
  <2>4. n \in Nat /\ n < all
    BY <2>2, <2>3
  <2> QED
    BY <2>1, <2>2, <2>4, TasksFacts DEF Typed
<1>4. toolMain = "sending" => attempt[Sent].at = "none"
  BY <1>1, <1>2, <1>3
<1> QED
  BY <1>1, <1>2, <1>3, <1>4 DEF Handed

(* The next task is handed out.                                            *)
LEMMA HandOut ==
  ASSUME ToolsAssumption, Typed, toolMain = "sending", Others(Sent), attempt'[Sent].at # "none",
         tool' = tool, toolMain' = "loop"
  PROVE  HandedOut' /\ Sent' = Sent + 1
<1>1. PICK n : n = Sent
  OBVIOUS
<1>2. n \in Tasks /\ n \in Nat /\ n < tool.tasks /\ tool.tasks \in Nat /\ tool.tasks <= MaxTasks
  BY <1>1, SentFacts, TasksFacts DEF Typed
<1>3. Handed' \subseteq Tasks
  BY DEF Handed
<1>4. \A i \in Tasks : i \in Handed' <=> i < n + 1
  <2>1. SUFFICES ASSUME NEW i \in Tasks
                 PROVE  attempt'[i].at # "none" <=> i < n + 1
    BY DEF Handed, InState
  <2>2. i \in Nat
    BY TasksFacts DEF Typed
  <2>3. CASE i = n
    BY <1>1, <1>2, <2>3
  <2>4. CASE i # n
    <3>1. attempt'[i] = attempt[i]
      BY <1>1, <2>4 DEF Others
    <3>2. attempt[i].at # "none" <=> i < n
      BY <1>1, SentFacts
    <3>3. i < n <=> i < n + 1
      BY <1>2, <2>2, <2>4
    <3> QED
      BY <3>1, <3>2, <3>3
  <2> QED
    BY <2>3, <2>4
<1>5. Cardinality(Handed') = n + 1
  <2>1. n + 1 \in Nat /\ n + 1 <= MaxTasks
    BY <1>2, TasksFacts DEF Typed
  <2> QED
    BY <1>3, <1>4, <2>1, Below DEF Typed
<1>6. Sent' = n + 1
  BY <1>5 DEF Sent, Handed
<1>7. n + 1 \in 0..tool.tasks
  BY <1>2
<1> QED
  BY <1>1, <1>4, <1>6, <1>7 DEF HandedOut

(* An attempt that was taken goes on.                                      *)
GoesOn(i) ==
    /\ Others(i)
    /\ attempt[i].at \notin {"none", "queued"} /\ attempt'[i].at \notin {"none", "queued"}
    /\ attempt'[i].stage <= Len(kind.stages)

LEMMA KindStays ==
  ASSUME tool' = tool
  PROVE  kind' = kind
BY DEF kind, KindOfTool

LEMMA GoesOnFacts ==
  ASSUME ToolsAssumption, Typed, NEW i \in Tasks, GoesOn(i), tool' = tool, queue' = queue,
         toolMain' = toolMain
  PROVE  HandedOut' /\ QueueHolds' /\ StagesExist'
<1>1. Handed' = Handed
  BY DEF Handed, InState, GoesOn, Others
<1>2. Sent' = Sent
  BY <1>1 DEF Sent, Handed
<1>3. HandedOut'
  BY <1>1, <1>2 DEF Typed, HandedOut
<1>4. QueueHolds'
  <2>1. ASSUME NEW n \in 1..Len(queue)
        PROVE  attempt'[queue[n]].at = "queued"
    <3>1. queue[n] \in Tasks /\ attempt[queue[n]].at = "queued"
      BY ElementOfSeq DEF Typed, QueueHolds
    <3> QED
      BY <3>1 DEF GoesOn, Others
  <2> QED
    BY <2>1, KindStays DEF Typed, QueueHolds
<1>5. StagesExist'
  <2>1. ASSUME NEW j \in Tasks
        PROVE  attempt'[j].stage <= Len(kind.stages)
    BY DEF Typed, StagesExist, GoesOn, Others
  <2> QED
    BY <2>1, KindStays DEF StagesExist
<1> QED
  BY <1>3, <1>4, <1>5

(* Nothing happens to an attempt.                                          *)
LEMMA AttemptsStay ==
  ASSUME ToolsAssumption, Typed, attempt' = attempt, tool' = tool, queue' = queue,
         toolMain' = "sending" => toolMain = "sending" \/ Sent < tool.tasks
  PROVE  HandedOut' /\ QueueHolds' /\ StagesExist'
<1>1. Handed' = Handed /\ Sent' = Sent
  BY DEF Handed, InState, Sent
<1>2. kind' = kind
  BY KindStays
<1>3. HandedOut'
  BY <1>1 DEF Typed, HandedOut
<1>4. QueueHolds'
  BY <1>2 DEF Typed, QueueHolds
<1>5. StagesExist'
  BY <1>2 DEF Typed, StagesExist
<1> QED
  BY <1>3, <1>4, <1>5

LEMMA EnqueueFacts ==
  ASSUME ToolsAssumption, Typed, Enqueue, tool' = tool
  PROVE  /\ Others(Sent) /\ attempt'[Sent].at = "queued" /\ attempt[Sent].at = "none"
         /\ Sent \in Tasks /\ attempt'[Sent].ok = attempt[Sent].ok
         /\ queue' \in Seq(Tasks) /\ Len(queue') <= 2 * tool.clients
         /\ HandedOut' /\ QueueHolds' /\ StagesExist'
<1>1. toolMain = "sending" /\ kind.pooled /\ Len(queue) < 2 * tool.clients
  BY DEF Enqueue
<1>2. Sent \in Tasks /\ attempt[Sent].at = "none"
  BY <1>1, SentFacts
<1>3. Moved(Sent, "queued")
  BY <1>2, MovesFacts DEF Enqueue, Places
<1>4. Others(Sent) /\ attempt'[Sent].at = "queued" /\ attempt'[Sent].ok = attempt[Sent].ok
  BY <1>3 DEF Moved
<1>5. HandedOut'
  BY <1>1, <1>4, HandOut DEF Enqueue
<1>6. PICK n : n = Sent
  OBVIOUS
<1>7. queue \in Seq(Tasks) /\ queue' = Append(queue, n) /\ n \in Tasks
  BY <1>2, <1>6 DEF Enqueue, Typed
<1>8. /\ queue' \in Seq(Tasks) /\ Len(queue') = Len(queue) + 1
      /\ \A m \in 1..Len(queue) : queue'[m] = queue[m]
      /\ queue'[Len(queue) + 1] = n
  BY <1>7, AppendProperties
<1>9. Len(queue) \in Nat
  BY <1>7, LenProperties
<1>10. Len(queue') <= 2 * tool.clients
  <2>1. 2 * tool.clients \in Nat
    BY ToolFacts DEF Typed
  <2> QED
    BY <1>1, <1>8, <1>9, <2>1
<1>11. QueueHolds'
  <2>1. ASSUME NEW m \in 1..Len(queue)
        PROVE  queue[m] \in Tasks /\ queue[m] # n /\ attempt'[queue[m]].at = "queued"
    <3>1. queue[m] \in Tasks /\ attempt[queue[m]].at = "queued"
      BY <1>7, ElementOfSeq DEF Typed, QueueHolds
    <3>2. queue[m] # n
      BY <1>2, <1>6, <3>1
    <3> QED
      BY <1>4, <1>6, <3>1, <3>2 DEF Others
  <2>2. \A m \in 1..Len(queue') : m \in 1..Len(queue) \/ m = Len(queue) + 1
    BY <1>8, <1>9
  <2>3. \A m \in 1..Len(queue') : attempt'[queue'[m]].at = "queued"
    BY <1>4, <1>6, <1>8, <2>1, <2>2
  <2>4. \A m, l \in 1..Len(queue') : queue'[m] = queue'[l] => m = l
    BY <1>8, <2>1, <2>2 DEF Typed, QueueHolds
  <2> QED
    BY <1>1, <2>3, <2>4, KindStays DEF QueueHolds
<1>12. StagesExist'
  BY <1>2, <1>3, KindStays DEF Typed, StagesExist, Others, Moved
<1> QED
  BY <1>2, <1>4, <1>5, <1>8, <1>10, <1>11, <1>12

LEMMA SpawnFacts ==
  ASSUME ToolsAssumption, Typed, Spawn, tool' = tool
  PROVE  /\ Others(Sent) /\ attempt'[Sent].at = "running" /\ attempt[Sent].at = "none"
         /\ Sent \in Tasks /\ attempt'[Sent].ok = attempt[Sent].ok
         /\ attempt'[Sent].stage = attempt[Sent].stage
         /\ HandedOut' /\ QueueHolds' /\ StagesExist'
<1>1. toolMain = "sending" /\ ~kind.pooled /\ queue' = queue
  BY DEF Spawn
<1>2. Sent \in Tasks /\ attempt[Sent].at = "none"
  BY <1>1, SentFacts
<1>3. Moved(Sent, "running")
  BY <1>2, MovesFacts DEF Spawn, Places
<1>4. HandedOut'
  <2>1. Others(Sent) /\ attempt'[Sent].at # "none" /\ toolMain' = "loop"
    BY <1>3 DEF Moved, Spawn
  <2> QED
    BY <1>1, <2>1, HandOut
<1>5. QueueHolds'
  <2>1. queue = <<>>
    BY <1>1 DEF Typed, QueueHolds
  <2>2. Len(queue') = 0 /\ queue' = <<>>
    BY <1>1, <2>1
  <2> QED
    BY <2>2 DEF QueueHolds
<1>6. StagesExist'
  BY <1>2, <1>3, KindStays DEF Typed, StagesExist, Others, Moved
<1> QED
  BY <1>2, <1>3, <1>4, <1>5, <1>6 DEF Moved

LEMMA TakeFacts ==
  ASSUME ToolsAssumption, Typed, NEW i \in Tasks, Take(i), tool' = tool
  PROVE  /\ Moved(i, "running") /\ attempt[i].at = "queued" /\ kind.pooled
         /\ queue' \in Seq(Tasks) /\ Len(queue') <= 2 * tool.clients
         /\ HandedOut' /\ QueueHolds' /\ StagesExist'
<1>1. queue # <<>> /\ Head(queue) = i /\ queue' = Tail(queue) /\ toolMain' = toolMain
  BY DEF Take
<1>2. Moved(i, "running")
  BY MovesFacts DEF Take, Places
<1>3. /\ queue \in Seq(Tasks) /\ queue' \in Seq(Tasks) /\ Len(queue) \in Nat \ {0}
      /\ Len(queue') = Len(queue) - 1 /\ queue[1] = i
      /\ \A n \in 1..Len(queue') : queue'[n] = queue[n + 1]
  <2>1. queue \in Seq(Tasks)
    BY DEF Typed
  <2> QED
    BY <1>1, <2>1, EmptySeq, HeadTailProperties
<1>4. attempt[i].at = "queued"
  <2>1. 1 \in 1..Len(queue)
    BY <1>3
  <2> QED
    BY <1>3, <2>1 DEF Typed, QueueHolds
<1>5. Len(queue') <= 2 * tool.clients
  <2>1. 2 * tool.clients \in Nat /\ Len(queue) <= 2 * tool.clients
    BY ToolFacts DEF Typed
  <2> QED
    BY <1>3, <2>1
<1>6. Handed' = Handed
  BY <1>2, <1>4 DEF Handed, InState, Moved, Others
<1>7. HandedOut'
  BY <1>1, <1>6 DEF Typed, HandedOut, Sent, Handed
<1>8. QueueHolds'
  <2>1. ASSUME NEW n \in 1..Len(queue')
        PROVE  /\ n + 1 \in 1..Len(queue) /\ queue'[n] = queue[n + 1]
               /\ attempt'[queue'[n]].at = "queued"
    <3>1. n + 1 \in 1..Len(queue) /\ queue'[n] = queue[n + 1] /\ n + 1 # 1 /\ 1 \in 1..Len(queue)
      BY <1>3
    <3>2. queue[n + 1] \in Tasks /\ attempt[queue[n + 1]].at = "queued"
      BY <1>3, <3>1, ElementOfSeq DEF Typed, QueueHolds
    <3>3. queue[n + 1] # i
      BY <1>3, <3>1 DEF Typed, QueueHolds
    <3> QED
      BY <1>2, <3>1, <3>2, <3>3 DEF Moved, Others
  <2>2. ASSUME NEW m \in 1..Len(queue'), NEW n \in 1..Len(queue'), queue'[m] = queue'[n]
        PROVE  m = n
    <3>1. m + 1 = n + 1
      BY <2>1, <2>2 DEF Typed, QueueHolds
    <3> QED
      BY <3>1, <1>3
  <2>3. kind.pooled
    BY <1>1 DEF Typed, QueueHolds
  <2> QED
    BY <2>1, <2>2, <2>3, KindStays DEF QueueHolds
<1>9. StagesExist'
  BY <1>2, KindStays DEF Typed, StagesExist, Others, Moved
<1>10. kind.pooled
  BY <1>1 DEF Typed, QueueHolds
<1> QED
  BY <1>2, <1>3, <1>4, <1>5, <1>7, <1>8, <1>9, <1>10

-----------------------------------------------------------------------------
(* The writer keeps its types *)

Copies(lines, i) == Cardinality({n \in DOMAIN lines : lines[n] = i})

LEMMA CopiesAreCounted ==
  ASSUME NEW lines \in Seq(Tasks), NEW i
  PROVE  Copies(lines, i) \in Nat
<1>1. IsFiniteSet(DOMAIN lines)
  <2>1. DOMAIN lines = 1..Len(lines) /\ 1 \in Int /\ Len(lines) \in Int
    BY LenProperties
  <2> QED
    BY <2>1, FS_Interval
<1>2. IsFiniteSet({n \in DOMAIN lines : lines[n] = i})
  BY <1>1, FS_Subset
<1> QED
  BY <1>2, FS_CardinalityType DEF Copies

LEMMA FlushFacts ==
  ASSUME WriterTypeOK(Tasks), NEW lines, lines \in Seq(Tasks), flushBuffer(lines)
  PROVE  /\ batch' = <<>>
         /\ file' \in [Tasks -> Nat] /\ missed' \in [dropped: Nat, lost: Nat]
         /\ missed'.dropped = missed.dropped
         /\ \/ /\ \A i \in Tasks : file'[i] = file[i] + Copies(lines, i)
               /\ missed'.lost = missed.lost
            \/ file' = file /\ missed'.lost = missed.lost + Len(lines)
<1>1. file \in [Tasks -> Nat] /\ missed \in [dropped: Nat, lost: Nat]
  BY DEF WriterTypeOK
<1>2. batch' = <<>>
  BY DEF flushBuffer
<1>3. CASE /\ file' = [r \in DOMAIN file |-> file[r] + Cardinality({n \in DOMAIN lines : lines[n] = r})]
           /\ UNCHANGED missed
  <2>1. file' = [r \in Tasks |-> file[r] + Copies(lines, r)]
    BY <1>1, <1>3 DEF Copies
  <2>2. \A r \in Tasks : file[r] + Copies(lines, r) \in Nat
    BY <1>1, CopiesAreCounted
  <2> QED
    BY <1>1, <1>2, <1>3, <2>1, <2>2
<1>4. CASE missed' = [missed EXCEPT !.lost = @ + Len(lines)] /\ UNCHANGED file
  <2>1. Len(lines) \in Nat
    BY LenProperties
  <2> QED
    BY <1>1, <1>2, <1>4, <2>1
<1> QED
  BY <1>3, <1>4 DEF flushBuffer

LEMMA NewBatch ==
  ASSUME ToolsAssumption, tool \in Tools
  PROVE  <<>> \in Seq(Tasks) /\ Len(<<>>) < BatchSize
BY ToolFacts

(* A result is taken from the channel and put with the others.             *)
LEMMA CollectFacts ==
  ASSUME ToolsAssumption, tool \in Tools, WriterTypeOK(Tasks), Collect
  PROVE  /\ writer' = writer /\ writer \in {"running", "draining"}
         /\ results' \in Seq(Tasks) /\ Len(results) = Len(results') + 1
         /\ results[1] \in Tasks
         /\ \A n \in 1..Len(results') : results'[n] = results[n + 1]
         /\ Append(batch, results[1]) \in Seq(Tasks)
         /\ Len(Append(batch, results[1])) = Len(batch) + 1
         /\ \/ flushBuffer(Append(batch, results[1]))
            \/ /\ batch' = Append(batch, results[1]) /\ Len(batch') < BatchSize
               /\ UNCHANGED <<file, missed>>
<1>1. results \in Seq(Tasks) /\ results # <<>> /\ batch \in Seq(Tasks)
  BY DEF WriterTypeOK, Collect
<1>2. /\ Head(results) = results[1] /\ results[1] \in Tasks /\ Len(results) \in Nat \ {0}
      /\ Tail(results) \in Seq(Tasks) /\ Len(Tail(results)) = Len(results) - 1
      /\ \A n \in 1..Len(Tail(results)) : Tail(results)[n] = results[n + 1]
  BY <1>1, EmptySeq, HeadTailProperties
<1>3. PICK lines : lines = Append(batch, results[1])
  OBVIOUS
<1>4. lines \in Seq(Tasks) /\ Len(lines) = Len(batch) + 1 /\ Len(lines) \in Nat
  BY <1>1, <1>2, <1>3, AppendProperties, LenProperties
<1>5. results' = Tail(results) /\ writer' = writer /\ writer \in {"running", "draining"}
  BY DEF Collect
<1>6. IF Len(lines) >= BatchSize
         THEN flushBuffer(lines)
         ELSE batch' = lines /\ UNCHANGED <<file, missed>>
  BY <1>2, <1>3 DEF Collect
<1>7. BatchSize \in Nat
  BY ToolFacts
<1>8. flushBuffer(lines) \/ (batch' = lines /\ Len(lines) < BatchSize /\ UNCHANGED <<file, missed>>)
  BY <1>4, <1>6, <1>7
<1> QED
  BY <1>2, <1>3, <1>4, <1>5, <1>8

LEMMA WriteLoopTyped ==
  ASSUME ToolsAssumption, tool \in Tools, WriterTypeOK(Tasks), WriteLoop
  PROVE  WriterTypeOK(Tasks)'
<1>1. /\ results \in Seq(Tasks) /\ batch \in Seq(Tasks) /\ file \in [Tasks -> Nat]
      /\ Len(results) <= BufferSize /\ Len(batch) < BatchSize
      /\ missed \in [dropped : Nat, lost : Nat]
      /\ writer \in {"off", "running", "draining", "closed"}
  BY DEF WriterTypeOK
<1>2. ASSUME NEW lines, lines \in Seq(Tasks), flushBuffer(lines),
             results' \in Seq(Tasks), Len(results') <= BufferSize,
             writer' \in {"off", "running", "draining", "closed"}
      PROVE  WriterTypeOK(Tasks)'
  <2>1. /\ batch' = <<>> /\ file' \in [Tasks -> Nat] /\ missed' \in [dropped : Nat, lost : Nat]
    BY <1>2, FlushFacts
  <2> QED
    BY <1>2, <2>1, NewBatch DEF WriterTypeOK
<1>3. CASE Collect
  <2>1. /\ writer' = writer /\ results' \in Seq(Tasks) /\ Len(results) = Len(results') + 1
        /\ Append(batch, results[1]) \in Seq(Tasks)
        /\ \/ flushBuffer(Append(batch, results[1]))
           \/ /\ batch' = Append(batch, results[1]) /\ Len(batch') < BatchSize
              /\ UNCHANGED <<file, missed>>
    BY <1>3, CollectFacts
  <2>2. Len(results') <= BufferSize
    <3>1. BufferSize \in Nat /\ Len(results') \in Nat
      BY <2>1, ToolFacts, LenProperties
    <3> QED
      BY <1>1, <2>1, <3>1
  <2>3. CASE flushBuffer(Append(batch, results[1]))
    BY <1>1, <1>2, <2>1, <2>2, <2>3
  <2>4. CASE /\ batch' = Append(batch, results[1]) /\ Len(batch') < BatchSize
             /\ UNCHANGED <<file, missed>>
    BY <1>1, <2>1, <2>2, <2>4 DEF WriterTypeOK
  <2> QED
    BY <2>1, <2>3, <2>4
<1>4. CASE Tick
  BY <1>1, <1>2, <1>4 DEF Tick
<1>5. CASE Drained
  BY <1>1, <1>2, <1>5 DEF Drained
<1> QED
  BY <1>3, <1>4, <1>5 DEF WriteLoop

LEMMA WriteResultTyped ==
  ASSUME ToolsAssumption, tool \in Tools, WriterTypeOK(Tasks), NEW i \in Tasks, WriteResult(i)
  PROVE  WriterTypeOK(Tasks)'
<1>1. /\ results \in Seq(Tasks) /\ batch \in Seq(Tasks) /\ file \in [Tasks -> Nat]
      /\ Len(results) <= BufferSize /\ Len(batch) < BatchSize
      /\ missed \in [dropped : Nat, lost : Nat]
      /\ writer \in {"off", "running", "draining", "closed"}
  BY DEF WriterTypeOK
<1>2. batch' = batch /\ file' = file /\ writer' = writer
  BY DEF WriteResult
<1>3. CASE results' = results /\ missed' = missed
  BY <1>1, <1>2, <1>3 DEF WriterTypeOK
<1>4. CASE Len(results) < BufferSize /\ results' = Append(results, i) /\ missed' = missed
  <2>1. results' \in Seq(Tasks) /\ Len(results') = Len(results) + 1
    BY <1>1, <1>4, AppendProperties
  <2>2. BufferSize \in Nat /\ Len(results) \in Nat
    BY <1>1, ToolFacts, LenProperties
  <2>3. Len(results') <= BufferSize
    BY <1>4, <2>1, <2>2
  <2> QED
    BY <1>1, <1>2, <1>4, <2>1, <2>3 DEF WriterTypeOK
<1>5. CASE missed' = [missed EXCEPT !.dropped = @ + 1] /\ results' = results
  <2>1. missed' \in [dropped : Nat, lost : Nat]
    <3>1. PICK n : n = missed.dropped + 1
      OBVIOUS
    <3>2. n \in Nat
      BY <1>1, <3>1
    <3>3. missed' = [missed EXCEPT !.dropped = n]
      BY <1>5, <3>1
    <3> QED
      BY <1>1, <3>2, <3>3
  <2> QED
    BY <1>1, <1>2, <1>5, <2>1 DEF WriterTypeOK
<1> QED
  BY <1>3, <1>4, <1>5 DEF WriteResult

-----------------------------------------------------------------------------
(* Every step keeps the types *)

LEMMA TypedParts ==
  ASSUME Typed
  PROVE  /\ tool \in Tools /\ toolMain \in MainPlaces /\ expired \in BOOLEAN
         /\ queue \in Seq(Tasks) /\ Len(queue) <= 2 * tool.clients
         /\ attempt \in [Tasks -> AttemptRecord]
         /\ counts \in [success: Nat, fail: Nat]
         /\ tokens \in Seq(Lines)
         /\ WriterTypeOK(Tasks)
BY DEF Typed

LEMMA TitleIs ==
  /\ <<"token_id">> \in Seq(Lines) /\ <<"token">> \in Seq(Lines) /\ <<>> \in Seq(Lines)
  /\ "token" \in Lines /\ "token_id" \in Lines
BY DEF Lines

(* An attempt that saw the file empty writes the title before its line.    *)
LEMMA AppendTokenFacts ==
  ASSUME Typed, NEW i \in Tasks, AppendToken(i)
  PROVE  \/ ~attempt[i].empty /\ tokens' = Append(tokens, "token")
         \/ attempt[i].empty /\ tokens' = Append(Append(tokens, "token_id"), "token")
<1>1. tokens \in Seq(Lines)
  BY DEF Typed
<1>2. CASE attempt[i].empty
  <2>1. tokens' = tokens \o <<"token_id">> \o <<"token">>
    BY <1>2 DEF AppendToken
  <2>2. tokens \o <<"token_id">> = Append(tokens, "token_id")
    BY <1>1, TitleIs, AppendIsConcat
  <2>3. Append(tokens, "token_id") \in Seq(Lines)
    BY <1>1, TitleIs, AppendProperties
  <2>4. Append(tokens, "token_id") \o <<"token">> = Append(Append(tokens, "token_id"), "token")
    BY <2>3, TitleIs, AppendIsConcat
  <2> QED
    BY <1>2, <2>1, <2>2, <2>4
<1>3. CASE ~attempt[i].empty
  <2>1. tokens' = tokens \o <<>> \o <<"token">>
    BY <1>3 DEF AppendToken
  <2>2. tokens \o <<>> = tokens
    BY <1>1, ConcatEmptySeq
  <2>3. tokens \o <<"token">> = Append(tokens, "token")
    BY <1>1, TitleIs, AppendIsConcat
  <2> QED
    BY <1>3, <2>1, <2>2, <2>3
<1> QED
  BY <1>2, <1>3

LEMMA TokensTyped ==
  ASSUME Typed, NEW i \in Tasks, Converse(i)
  PROVE  tokens' \in Seq(Lines)
<1>1. tokens \in Seq(Lines)
  BY DEF Typed
<1>2. CASE AppendToken(i)
  <2>1. Append(tokens, "token_id") \in Seq(Lines) /\ Append(tokens, "token") \in Seq(Lines)
    BY <1>1, TitleIs, AppendProperties
  <2>2. Append(Append(tokens, "token_id"), "token") \in Seq(Lines)
    BY <2>1, TitleIs, AppendProperties
  <2> QED
    BY <1>2, <2>1, <2>2, AppendTokenFacts
<1>3. CASE Passes(i) \/ DialsAgain(i) \/ Fails(i) \/ StatTokens(i)
  BY <1>1, <1>3 DEF Passes, DialsAgain, Fails, StatTokens
<1> QED
  BY <1>2, <1>3 DEF Converse

(* What the last steps of an attempt do to it.                             *)
LEMMA AccountFacts ==
  ASSUME ToolsAssumption, Typed, NEW i \in Tasks, Account(i)
  PROVE  /\ \/ Record(i) /\ attempt[i].at = "recording" /\ Moved(i, "counting")
            \/ /\ updateStats(i) /\ attempt[i].at = "counting"
               /\ Moved(i, IF kind.pooled THEN "done" ELSE "releasing")
            \/ ReleaseSemaphore(i) /\ attempt[i].at = "releasing" /\ Moved(i, "leaving")
            \/ GroupDone(i) /\ attempt[i].at = "leaving" /\ Moved(i, "done")
         /\ GoesOn(i)
         /\ UNCHANGED <<toolMain, expired, queue, tokens>>
<1>1. ASSUME NEW at, at \in Places \ {"none", "queued"}, Moves(i, at),
             attempt[i].at \notin {"none", "queued"}
      PROVE  Moved(i, at) /\ GoesOn(i)
  <2>1. Moved(i, at)
    BY <1>1, MovesFacts
  <2>2. attempt[i].stage <= Len(kind.stages)
    BY DEF Typed, StagesExist
  <2> QED
    BY <1>1, <2>1, <2>2 DEF Moved, GoesOn
<1>2. CASE Record(i)
  BY <1>1, <1>2 DEF Record, Places
<1>3. CASE updateStats(i)
  <2>1. (IF kind.pooled THEN "done" ELSE "releasing") \in Places \ {"none", "queued"}
    BY DEF Places
  <2>2. attempt[i].at = "counting" /\ Moves(i, IF kind.pooled THEN "done" ELSE "releasing")
    BY <1>3 DEF updateStats
  <2> QED
    BY <1>1, <1>3, <2>1, <2>2 DEF updateStats
<1>4. CASE ReleaseSemaphore(i)
  BY <1>1, <1>4 DEF ReleaseSemaphore, Places
<1>5. CASE GroupDone(i)
  BY <1>1, <1>5 DEF GroupDone, Places
<1> QED
  BY <1>2, <1>3, <1>4, <1>5 DEF Account

LEMMA CountedFacts ==
  ASSUME Typed, NEW i \in Tasks, updateStats(i)
  PROVE  /\ counts' \in [success: Nat, fail: Nat]
         /\ attempt[i].ok => counts'.success = counts.success + 1 /\ counts'.fail = counts.fail
         /\ ~attempt[i].ok => counts'.success = counts.success /\ counts'.fail = counts.fail + 1
<1>1. counts \in [success: Nat, fail: Nat] /\ counts' = Counted(i)
  BY DEF Typed, updateStats
<1>2. CASE attempt[i].ok
  <2>1. PICK n \in Nat : n = counts.success + 1
    BY <1>1
  <2>2. counts' = [counts EXCEPT !.success = n]
    BY <1>1, <1>2, <2>1 DEF Counted
  <2> QED
    BY <1>1, <1>2, <2>1, <2>2
<1>3. CASE ~attempt[i].ok
  <2>1. PICK n \in Nat : n = counts.fail + 1
    BY <1>1
  <2>2. counts' = [counts EXCEPT !.fail = n]
    BY <1>1, <1>3, <2>1 DEF Counted
  <2> QED
    BY <1>1, <1>3, <2>1, <2>2
<1> QED
  BY <1>2, <1>3

(* Between two attempts main only looks at the clock, and reports.         *)
MainOnly == Decide \/ Report \/ CloseFile

LEMMA MainOnlyTyped ==
  ASSUME ToolsAssumption, Typed, MainOnly, tool' = tool
  PROVE  Typed'
<1>1. /\ UNCHANGED <<expired, queue, attempt, counts, tokens>>
      /\ toolMain' \in MainPlaces
      /\ toolMain' = "sending" => toolMain = "sending" \/ Sent < tool.tasks
  <2>1. CASE Decide
    <3>1. Sent \in Nat /\ Sent <= tool.tasks /\ tool.tasks \in Nat
      BY SentFacts, TasksFacts DEF Typed
    <3>2. toolMain' = "sending" => Sent # tool.tasks
      BY <2>1 DEF Decide
    <3>3. Sent # tool.tasks => Sent < tool.tasks
      BY <3>1
    <3> QED
      BY <2>1, <3>2, <3>3 DEF Decide, MainPlaces
  <2>2. CASE Report
    BY <2>2 DEF Report, MainPlaces
  <2>3. CASE CloseFile
    BY <2>3, TypedParts DEF CloseFile, MainPlaces
  <2> QED
    BY <2>1, <2>2, <2>3 DEF MainOnly
<1>2. WriterTypeOK(Tasks)'
  <2>1. CASE UNCHANGED writerVars
    BY <2>1, TypedParts DEF WriterTypeOK, writerVars
  <2>2. CASE StopWriter
    BY <2>2, TypedParts DEF WriterTypeOK, StopWriter
  <2> QED
    BY <2>1, <2>2 DEF MainOnly, Decide, Report, CloseFile
<1>3. HandedOut' /\ QueueHolds' /\ StagesExist'
  BY <1>1, AttemptsStay
<1> QED
  BY <1>1, <1>2, <1>3, TypedParts DEF Typed

LEMMA StepCases ==
  ASSUME Steps
  PROVE  \/ MainOnly \/ Enqueue \/ Spawn \/ Expire
         \/ \E i \in Tasks : Take(i) \/ Converse(i) \/ Account(i)
         \/ WriteLoop /\ UNCHANGED coreVars
BY DEF Steps, Main, MainOnly

LEMMA TypedStep ==
  ASSUME ToolsAssumption, Typed, [ToolNext]_toolVars
  PROVE  Typed'
<1>1. CASE UNCHANGED toolVars
  <2>1. UNCHANGED <<tool, toolMain, expired, queue, attempt, counts, tokens, results, batch, file,
                    missed, writer>>
    BY <1>1 DEF toolVars, coreVars, writerVars
  <2>2. HandedOut' /\ QueueHolds' /\ StagesExist'
    BY <2>1, AttemptsStay
  <2> QED
    BY <2>1, <2>2, TypedParts DEF Typed, WriterTypeOK
<1> SUFFICES ASSUME Steps, tool' = tool
             PROVE  Typed'
  BY <1>1 DEF ToolNext
<1>2. ASSUME UNCHANGED writerVars
      PROVE  WriterTypeOK(Tasks)'
  BY <1>2, TypedParts DEF WriterTypeOK, writerVars
<1>3. CASE MainOnly
  BY <1>3, MainOnlyTyped
<1>4. CASE Enqueue
  <2>1. UNCHANGED <<expired, counts, tokens, writerVars>> /\ toolMain' = "loop"
    BY <1>4 DEF Enqueue
  <2>2. /\ Others(Sent) /\ queue' \in Seq(Tasks) /\ Len(queue') <= 2 * tool.clients
        /\ HandedOut' /\ QueueHolds' /\ StagesExist'
    BY <1>4, EnqueueFacts
  <2> QED
    BY <1>2, <2>1, <2>2, TypedParts DEF Typed, Others, MainPlaces
<1>5. CASE Spawn
  <2>1. UNCHANGED <<expired, queue, counts, tokens, writerVars>> /\ toolMain' = "loop"
    BY <1>5 DEF Spawn
  <2>2. Others(Sent) /\ HandedOut' /\ QueueHolds' /\ StagesExist'
    BY <1>5, SpawnFacts
  <2> QED
    BY <1>2, <2>1, <2>2, TypedParts DEF Typed, Others, MainPlaces
<1>6. CASE Expire
  <2>1. UNCHANGED <<toolMain, queue, attempt, counts, tokens, writerVars>> /\ expired' \in BOOLEAN
    BY <1>6 DEF Expire
  <2>2. HandedOut' /\ QueueHolds' /\ StagesExist'
    BY <2>1, AttemptsStay
  <2> QED
    BY <1>2, <2>1, <2>2, TypedParts DEF Typed
<1>7. ASSUME NEW i \in Tasks, Take(i)
      PROVE  Typed'
  <2>1. UNCHANGED <<toolMain, expired, counts, tokens, writerVars>>
    BY <1>7 DEF Take
  <2>2. /\ Moved(i, "running") /\ queue' \in Seq(Tasks) /\ Len(queue') <= 2 * tool.clients
        /\ HandedOut' /\ QueueHolds' /\ StagesExist'
    BY <1>7, TakeFacts
  <2> QED
    BY <1>2, <2>1, <2>2, TypedParts DEF Typed, Moved, Others
<1>8. ASSUME NEW i \in Tasks, Converse(i)
      PROVE  Typed'
  <2>1. Conversed(i)
    BY <1>8, ConverseFacts
  <2>2. UNCHANGED <<toolMain, expired, queue, counts, writerVars>>
    BY <2>1 DEF Conversed
  <2>3. GoesOn(i)
    BY <2>1 DEF Conversed, GoesOn, OverPlace
  <2>4. HandedOut' /\ QueueHolds' /\ StagesExist'
    BY <2>2, <2>3, GoesOnFacts
  <2>5. tokens' \in Seq(Lines)
    BY <1>8, TokensTyped
  <2> QED
    BY <1>2, <2>2, <2>3, <2>4, <2>5, TypedParts DEF Typed, GoesOn, Others
<1>9. ASSUME NEW i \in Tasks, Account(i)
      PROVE  Typed'
  <2>1. GoesOn(i) /\ UNCHANGED <<toolMain, expired, queue, tokens>>
    BY <1>9, AccountFacts
  <2>2. HandedOut' /\ QueueHolds' /\ StagesExist'
    BY <2>1, GoesOnFacts
  <2>3. CASE Record(i)
    <3>1. WriterTypeOK(Tasks)' /\ counts' = counts
      BY <2>3, TypedParts, WriteResultTyped DEF Record
    <3> QED
      BY <2>1, <2>2, <3>1, TypedParts DEF Typed, GoesOn, Others
  <2>4. CASE ~Record(i)
    <3>1. UNCHANGED writerVars /\ counts' \in [success: Nat, fail: Nat]
      BY <1>9, <2>4, CountedFacts, TypedParts DEF Account, updateStats, ReleaseSemaphore, GroupDone
    <3> QED
      BY <1>2, <2>1, <2>2, <3>1, TypedParts DEF Typed, GoesOn, Others
  <2> QED
    BY <2>3, <2>4
<1>10. CASE WriteLoop /\ UNCHANGED coreVars
  <2>1. UNCHANGED <<toolMain, expired, queue, attempt, counts, tokens>>
    BY <1>10 DEF coreVars
  <2>2. WriterTypeOK(Tasks)'
    BY <1>10, TypedParts, WriteLoopTyped
  <2>3. HandedOut' /\ QueueHolds' /\ StagesExist'
    BY <2>1, AttemptsStay
  <2> QED
    BY <2>1, <2>2, <2>3, TypedParts DEF Typed
<1> QED
  BY <1>3, <1>4, <1>5, <1>6, <1>7, <1>8, <1>9, <1>10, StepCases

LEMMA TypedInit ==
  ASSUME ToolsAssumption, ToolInit
  PROVE  Typed
<1>1. /\ tool \in Tools /\ toolMain = "loop" /\ expired = FALSE /\ queue = <<>>
      /\ attempt = [i \in Tasks |-> NoAttempt]
      /\ counts = [success |-> 0, fail |-> 0]
      /\ results = <<>> /\ batch = <<>> /\ file = [r \in Tasks |-> 0]
      /\ missed = [dropped |-> 0, lost |-> 0]
      /\ writer \in {"off", "running"}
  BY DEF ToolInit, WriterInit
<1>2. /\ tool.clients \in Nat \ {0} /\ tool.tasks \in Nat /\ tool.tasks <= MaxTasks
      /\ BufferSize \in Nat \ {0} /\ BatchSize \in Nat \ {0}
  BY <1>1, ToolFacts, TasksFacts
<1>3. attempt \in [Tasks -> AttemptRecord] /\ \A i \in Tasks : attempt[i] = NoAttempt
  BY <1>1, NoAttemptIs
<1>4. queue \in Seq(Tasks) /\ Len(queue) = 0 /\ Len(queue) <= 2 * tool.clients
  BY <1>1, <1>2
<1>5. WriterTypeOK(Tasks)
  <2>1. results \in Seq(Tasks) /\ batch \in Seq(Tasks) /\ Len(results) = 0 /\ Len(batch) = 0
    BY <1>1
  <2> QED
    BY <1>1, <1>2, <2>1 DEF WriterTypeOK
<1>6. tokens \in Seq(Lines)
  <2>1. <<>> \in Seq(Lines) /\ <<"token_id", "token">> \in Seq(Lines)
    BY DEF Lines
  <2> QED
    BY <2>1 DEF ToolInit
<1>7. HandedOut
  <2>1. Handed = {}
    BY <1>3, NoAttemptIs DEF Handed, InState
  <2>2. Sent = 0
    BY <2>1, FS_EmptySet DEF Sent, Handed
  <2>3. \A i \in Tasks : i \in Nat
    BY <1>1, TasksFacts
  <2> QED
    BY <1>1, <1>2, <2>1, <2>2, <2>3 DEF HandedOut
<1>8. QueueHolds
  BY <1>1, <1>4 DEF QueueHolds
<1>9. StagesExist
  <2>1. Len(kind.stages) \in 1..8
    BY <1>1, KindFacts DEF KindFits, StagesFit
  <2>2. 1 <= Len(kind.stages)
    <3>1. PICK n \in 1..8 : n = Len(kind.stages)
      BY <2>1
    <3>2. 1 <= n
      OBVIOUS
    <3> QED
      BY <3>1, <3>2
  <2>3. \A i \in Tasks : attempt[i].stage = 1
    BY <1>3, NoAttemptIs
  <2> QED
    BY <2>2, <2>3 DEF StagesExist
<1>10. counts \in [success: Nat, fail: Nat]
  BY <1>1
<1> QED
  BY <1>1, <1>3, <1>4, <1>5, <1>6, <1>7, <1>8, <1>9, <1>10 DEF Typed, MainPlaces

-----------------------------------------------------------------------------
(* The counters *)

IsSettled(a) == a.at \in {"releasing", "leaving", "done"}

SettledWell == {i \in Tasks : IsSettled(attempt[i]) /\ attempt[i].ok}

SettledBadly == {i \in Tasks : IsSettled(attempt[i]) /\ ~attempt[i].ok}

(* The counters are those of the attempts that have been counted; when the *)
(* report is made there are no others.                                     *)
CountsInv ==
    /\ counts.success = Cardinality(SettledWell)
    /\ counts.fail = Cardinality(SettledBadly)
    /\ \A i \in Tasks : attempt[i].at = "none" => ~attempt[i].ok
    /\ toolMain \in {"reported", "ended"} => \A i \in Tasks : attempt[i].at \in {"none", "done"}

(* A step of an attempt that was counted before or is not counted by it.   *)
LEMMA StaysSettled ==
  ASSUME NEW i \in Tasks, Others(i), IsSettled(attempt[i]) <=> IsSettled(attempt'[i]),
         IsSettled(attempt[i]) => attempt'[i].ok = attempt[i].ok
  PROVE  SettledWell' = SettledWell /\ SettledBadly' = SettledBadly
<1>1. \A j \in Tasks : /\ IsSettled(attempt[j]) <=> IsSettled(attempt'[j])
                       /\ IsSettled(attempt[j]) => attempt'[j].ok = attempt[j].ok
  BY DEF Others
<1> QED
  BY <1>1 DEF SettledWell, SettledBadly

LEMMA SettledIsFinite ==
  ASSUME ToolsAssumption, tool \in Tools
  PROVE  IsFiniteSet(SettledWell) /\ IsFiniteSet(SettledBadly)
BY TasksFacts, FS_Subset DEF SettledWell, SettledBadly

LEMMA Settles ==
  ASSUME ToolsAssumption, Typed, CountsInv, NEW i \in Tasks, updateStats(i),
         attempt[i].at = "counting", Others(i), IsSettled(attempt'[i]),
         attempt'[i].ok = attempt[i].ok
  PROVE  /\ counts'.success = Cardinality(SettledWell')
         /\ counts'.fail = Cardinality(SettledBadly')
<1>1. counts.success = Cardinality(SettledWell) /\ counts.fail = Cardinality(SettledBadly)
  BY DEF CountsInv
<1>2. IsFiniteSet(SettledWell) /\ IsFiniteSet(SettledBadly)
  BY SettledIsFinite DEF Typed
<1>3. i \notin SettledWell /\ i \notin SettledBadly
  BY DEF SettledWell, SettledBadly, IsSettled
<1>4. \A j \in Tasks \ {i} : attempt'[j] = attempt[j]
  BY DEF Others
<1>5. CASE attempt[i].ok
  <2>1. SettledWell' = SettledWell \cup {i} /\ SettledBadly' = SettledBadly
    BY <1>3, <1>4, <1>5 DEF SettledWell, SettledBadly
  <2>2. Cardinality(SettledWell') = Cardinality(SettledWell) + 1
    BY <1>2, <1>3, <2>1, FS_AddElement
  <2> QED
    BY <1>1, <1>5, <2>1, <2>2, CountedFacts
<1>6. CASE ~attempt[i].ok
  <2>1. SettledBadly' = SettledBadly \cup {i} /\ SettledWell' = SettledWell
    BY <1>3, <1>4, <1>6 DEF SettledWell, SettledBadly
  <2>2. Cardinality(SettledBadly') = Cardinality(SettledBadly) + 1
    BY <1>2, <1>3, <2>1, FS_AddElement
  <2> QED
    BY <1>1, <1>6, <2>1, <2>2, CountedFacts
<1> QED
  BY <1>5, <1>6

(* The third and the fourth part, after a step of one attempt.             *)
LEMMA OneAttemptMoves ==
  ASSUME CountsInv, NEW i \in Tasks, Others(i), attempt[i].at \notin {"none", "done"},
         attempt'[i].at # "none", toolMain' = toolMain
  PROVE  /\ \A j \in Tasks : attempt'[j].at = "none" => ~attempt'[j].ok
         /\ toolMain' \in {"reported", "ended"} => \A j \in Tasks : attempt'[j].at \in {"none", "done"}
BY DEF CountsInv, Others

LEMMA CountsStep ==
  ASSUME ToolsAssumption, Typed, CountsInv, [ToolNext]_toolVars
  PROVE  CountsInv'
<1>1. CASE UNCHANGED toolVars
  BY <1>1 DEF CountsInv, SettledWell, SettledBadly, toolVars, coreVars
<1> SUFFICES ASSUME Steps, tool' = tool
             PROVE  CountsInv'
  BY <1>1 DEF ToolNext
<1>2. ASSUME attempt' = attempt, counts' = counts,
             toolMain' \in {"reported", "ended"} => \A i \in Tasks : attempt[i].at \in {"none", "done"}
      PROVE  CountsInv'
  BY <1>2 DEF CountsInv, SettledWell, SettledBadly
<1>3. CASE MainOnly
  <2>1. CASE Decide
    BY <1>2, <2>1 DEF Decide
  <2>2. CASE Report
    <3>1. \A i \in Tasks : attempt[i].at \in {"none", "done"}
      <4>1. \A i \in Tasks : attempt[i].at \in Places
        BY AttemptFields DEF Typed
      <4>2. InState({"queued", "running", "recording", "counting", "releasing", "leaving"}) = {}
        BY <2>2 DEF Report
      <4> QED
        BY <4>1, <4>2 DEF Places, InState
    <3> QED
      BY <1>2, <2>2, <3>1 DEF Report
  <2>3. CASE CloseFile
    BY <1>2, <2>3 DEF CloseFile, CountsInv
  <2> QED
    BY <1>3, <2>1, <2>2, <2>3 DEF MainOnly
<1>4. CASE Enqueue \/ Spawn
  <2>1. /\ Others(Sent) /\ attempt'[Sent].at \in {"queued", "running"} /\ attempt[Sent].at = "none"
        /\ Sent \in Tasks
    BY <1>4, EnqueueFacts, SpawnFacts
  <2>2. toolMain' = "loop" /\ counts' = counts
    BY <1>4 DEF Enqueue, Spawn
  <2>3. SettledWell' = SettledWell /\ SettledBadly' = SettledBadly
    BY <2>1, StaysSettled DEF IsSettled
  <2>4. \A j \in Tasks : attempt'[j].at = "none" => ~attempt'[j].ok
    BY <2>1 DEF Others, CountsInv
  <2> QED
    BY <2>2, <2>3, <2>4 DEF CountsInv
<1>5. CASE Expire
  BY <1>2, <1>5 DEF Expire, CountsInv
<1>6. ASSUME NEW i \in Tasks, Others(i), attempt[i].at \notin {"none", "done"},
             attempt'[i].at # "none", IsSettled(attempt[i]) <=> IsSettled(attempt'[i]),
             IsSettled(attempt[i]) => attempt'[i].ok = attempt[i].ok,
             toolMain' = toolMain, counts' = counts
      PROVE  CountsInv'
  <2>1. SettledWell' = SettledWell /\ SettledBadly' = SettledBadly
    BY <1>6, StaysSettled
  <2>2. /\ \A j \in Tasks : attempt'[j].at = "none" => ~attempt'[j].ok
        /\ toolMain' \in {"reported", "ended"} => \A j \in Tasks : attempt'[j].at \in {"none", "done"}
    BY <1>6, OneAttemptMoves
  <2> QED
    BY <1>6, <2>1, <2>2 DEF CountsInv
<1>7. ASSUME NEW i \in Tasks, Take(i)
      PROVE  CountsInv'
  <2>1. Moved(i, "running") /\ attempt[i].at = "queued"
    BY <1>7, TakeFacts
  <2> QED
    BY <1>6, <1>7, <2>1 DEF Take, Moved, IsSettled
<1>8. ASSUME NEW i \in Tasks, Converse(i)
      PROVE  CountsInv'
  <2>1. Conversed(i)
    BY <1>8, ConverseFacts
  <2> QED
    BY <1>6, <2>1 DEF Conversed, OverPlace, IsSettled
<1>9. ASSUME NEW i \in Tasks, Account(i)
      PROVE  CountsInv'
  <2>1. UNCHANGED toolMain
    BY <1>9, AccountFacts
  <2>2. CASE Record(i) /\ attempt[i].at = "recording" /\ Moved(i, "counting")
    BY <1>6, <2>1, <2>2 DEF Record, Moved, IsSettled
  <2>3. CASE /\ updateStats(i) /\ attempt[i].at = "counting"
             /\ Moved(i, IF kind.pooled THEN "done" ELSE "releasing")
    <3>1. /\ Others(i) /\ attempt'[i].at \in {"done", "releasing"}
          /\ attempt'[i].ok = attempt[i].ok
      BY <2>3 DEF Moved
    <3>2. IsSettled(attempt'[i])
      BY <3>1 DEF IsSettled
    <3>3. /\ counts'.success = Cardinality(SettledWell')
          /\ counts'.fail = Cardinality(SettledBadly')
      BY <2>3, <3>1, <3>2, Settles
    <3>4. /\ \A j \in Tasks : attempt'[j].at = "none" => ~attempt'[j].ok
          /\ toolMain' \in {"reported", "ended"} => \A j \in Tasks : attempt'[j].at \in {"none", "done"}
      BY <2>1, <2>3, <3>1, OneAttemptMoves
    <3> QED
      BY <3>3, <3>4 DEF CountsInv
  <2>4. CASE ReleaseSemaphore(i) /\ attempt[i].at = "releasing" /\ Moved(i, "leaving")
    BY <1>6, <2>1, <2>4 DEF ReleaseSemaphore, Moved, IsSettled
  <2>5. CASE GroupDone(i) /\ attempt[i].at = "leaving" /\ Moved(i, "done")
    BY <1>6, <2>1, <2>5 DEF GroupDone, Moved, IsSettled
  <2> QED
    BY <1>9, <2>2, <2>3, <2>4, <2>5, AccountFacts
<1>10. CASE WriteLoop /\ UNCHANGED coreVars
  BY <1>2, <1>10 DEF coreVars, CountsInv
<1> QED
  BY <1>3, <1>4, <1>5, <1>7, <1>8, <1>9, <1>10, StepCases

LEMMA CountsInit ==
  ASSUME ToolsAssumption, ToolInit
  PROVE  CountsInv
<1>1. /\ toolMain = "loop" /\ attempt = [i \in Tasks |-> NoAttempt]
      /\ counts = [success |-> 0, fail |-> 0]
  BY DEF ToolInit
<1>2. \A i \in Tasks : attempt[i].at = "none" /\ ~attempt[i].ok
  BY <1>1, NoAttemptIs
<1>3. SettledWell = {} /\ SettledBadly = {}
  BY <1>2 DEF SettledWell, SettledBadly, IsSettled
<1> QED
  BY <1>1, <1>2, <1>3, FS_EmptySet DEF CountsInv

LEMMA TypedHolds == ASSUME ToolsAssumption PROVE ToolSpec => []Typed
<1>1. ToolInit => Typed
  BY TypedInit
<1>2. Typed /\ [ToolNext]_toolVars => Typed'
  BY TypedStep
<1> QED
  BY <1>1, <1>2, PTL DEF ToolSpec

LEMMA CountsHold == ASSUME ToolsAssumption PROVE ToolSpec => []CountsInv
<1>1. ToolInit => CountsInv
  BY CountsInit
<1>2. Typed /\ CountsInv /\ [ToolNext]_toolVars => CountsInv'
  BY CountsStep
<1> QED
  BY <1>1, <1>2, TypedHolds, PTL DEF ToolSpec

(* Queues, attempts, counters and files keep their types, for any number   *)
(* of clients, attempts and results; no counter passes the attempts.       *)
THEOREM ToolTypeCorrect == ASSUME ToolsAssumption PROVE ToolSpec => []ToolTypeOK
<1>1. ASSUME Typed, CountsInv
      PROVE  ToolTypeOK
  <2>1. Cardinality(Tasks) = MaxTasks /\ IsFiniteSet(Tasks) /\ MaxTasks \in Nat
    <3>1. MaxTasks \in Nat /\ \A i \in Tasks : i < MaxTasks
      BY <1>1, TasksFacts DEF Typed
    <3> QED
      BY <1>1, <3>1, TasksFacts, Below DEF Typed
  <2>2. SettledWell \subseteq Tasks /\ SettledBadly \subseteq Tasks
    BY DEF SettledWell, SettledBadly
  <2>3. Cardinality(SettledWell) <= MaxTasks /\ Cardinality(SettledBadly) <= MaxTasks
    BY <2>1, <2>2, FS_Subset
  <2>4. counts \in [success: Nat, fail: Nat]
    BY <1>1 DEF Typed
  <2>5. counts.success \in 0..MaxTasks /\ counts.fail \in 0..MaxTasks
    BY <1>1, <2>1, <2>3, <2>4 DEF CountsInv
  <2>6. counts \in [success: 0..MaxTasks, fail: 0..MaxTasks]
    BY <2>4, <2>5
  <2> QED
    BY <1>1, <2>6 DEF Typed, ToolTypeOK, MainPlaces, Lines
<1> QED
  BY <1>1, TypedHolds, CountsHold, PTL

(* Nobody has to wait for an attempt that is not counted when the report   *)
(* is made: every attempt handed out is in one of the counters, as it      *)
(* ended, for every tool, number of clients and number of attempts.        *)
THEOREM AttemptsAreReported == ASSUME ToolsAssumption PROVE ToolSpec => []EveryAttemptIsReported
<1>1. ASSUME Typed, CountsInv
      PROVE  EveryAttemptIsReported
  <2> SUFFICES ASSUME toolMain \in {"reported", "ended"}
               PROVE  /\ counts.success = Cardinality({i \in Tasks : attempt[i].ok})
                      /\ counts.success + counts.fail = Sent
    BY DEF EveryAttemptIsReported
  <2>1. \A i \in Tasks : attempt[i].at \in {"none", "done"} /\ (attempt[i].at = "none" => ~attempt[i].ok)
    BY <1>1 DEF CountsInv
  <2>2. SettledWell = {i \in Tasks : attempt[i].ok}
    BY <2>1 DEF SettledWell, IsSettled
  <2>3. Handed = SettledWell \cup SettledBadly /\ SettledWell \cap SettledBadly = {}
    BY <2>1 DEF Handed, InState, SettledWell, SettledBadly, IsSettled
  <2>4. IsFiniteSet(SettledWell) /\ IsFiniteSet(SettledBadly)
    BY <1>1, SettledIsFinite DEF Typed
  <2>5. Cardinality(Handed) = Cardinality(SettledWell) + Cardinality(SettledBadly)
    <3>1. Cardinality(SettledWell \cup SettledBadly)
            = Cardinality(SettledWell) + Cardinality(SettledBadly)
                 - Cardinality(SettledWell \cap SettledBadly)
      BY <2>4, FS_Union
    <3>2. Cardinality(SettledWell) \in Nat /\ Cardinality(SettledBadly) \in Nat
      BY <2>4, FS_CardinalityType
    <3> QED
      BY <2>3, <3>1, <3>2, FS_EmptySet
  <2> QED
    BY <1>1, <2>2, <2>5 DEF CountsInv, Sent, Handed
<1> QED
  BY <1>1, TypedHolds, CountsHold, PTL

-----------------------------------------------------------------------------
(* The result file *)

Recorded(a) == a.at \in {"counting", "releasing", "leaving", "done"}

RecordedTasks == {i \in Tasks : Recorded(attempt[i])}

InFile == {i \in Tasks : file[i] = 1}

Distinct(s) == \A m, n \in 1..Len(s) : s[m] = s[n] => m = n

(* Results on their way to the file are there once, and not in the file.   *)
OnTheirWay(s) ==
    /\ Distinct(s)
    /\ \A n \in 1..Len(s) : Recorded(attempt[s[n]]) /\ file[s[n]] = 0

Apart == \A m \in 1..Len(results), n \in 1..Len(batch) : results[m] # batch[n]

OnceInFile == \A i \in Tasks : file[i] \in {0, 1} /\ (file[i] = 1 => Recorded(attempt[i]))

(* Every result is in the channel, in the batch, in the file, or missed.   *)
ResultsAddUp ==
    Len(results) + Len(batch) + Cardinality(InFile) + missed.dropped + missed.lost
        = Cardinality(RecordedTasks)

(* The writer is told to stop when everything is reported, and takes what  *)
(* is left with it.                                                        *)
StopsLast ==
    /\ writer \in {"draining", "closed"} => toolMain \in {"reported", "ended"}
    /\ writer = "closed" => Len(results) = 0 /\ Len(batch) = 0

WriterInv ==
    writer # "off" =>
        /\ kind.recorded
        /\ OnTheirWay(results) /\ OnTheirWay(batch) /\ Apart
        /\ OnceInFile /\ ResultsAddUp /\ StopsLast

LEMMA RecordedIsFinite ==
  ASSUME ToolsAssumption, tool \in Tools
  PROVE  /\ IsFiniteSet(RecordedTasks) /\ Cardinality(RecordedTasks) \in Nat
         /\ IsFiniteSet(InFile) /\ Cardinality(InFile) \in Nat
<1>1. IsFiniteSet(RecordedTasks) /\ IsFiniteSet(InFile)
  BY TasksFacts, FS_Subset DEF RecordedTasks, InFile
<1> QED
  BY <1>1, FS_CardinalityType

Members(s) == {i \in Tasks : \E n \in 1..Len(s) : s[n] = i}

LEMMA DistinctMembers ==
  ASSUME NEW s, s \in Seq(Tasks), Distinct(s)
  PROVE  IsFiniteSet(Members(s)) /\ Cardinality(Members(s)) = Len(s)
<1>1. PICK k \in Nat : k = Len(s)
  BY LenProperties
<1>2. s \in [1..k -> Tasks]
  BY <1>1, LenProperties
<1>3. s \in [1..k -> Members(s)]
  BY <1>1, <1>2 DEF Members
<1>4. s \in Bijection(1..k, Members(s))
  <2>1. DOMAIN s = 1..k
    BY <1>2
  <2>2. s \in Injection(1..k, Members(s))
    BY <1>1, <1>3, <2>1 DEF Injection, IsInjective, Distinct
  <2>3. s \in Surjection(1..k, Members(s))
    BY <1>1, <1>3 DEF Surjection, Members
  <2> QED
    BY <2>2, <2>3 DEF Bijection
<1>5. ExistsBijection(1..k, Members(s))
  BY <1>4 DEF ExistsBijection
<1>6. Cardinality(Members(s)) = k
  BY <1>5, FS_CountingElements
<1>7. IsFiniteSet(Members(s))
  BY <1>5, FS_NatBijection
<1> QED
  BY <1>1, <1>6, <1>7

LEMMA CopiesOfDistinct ==
  ASSUME NEW s, s \in Seq(Tasks), Distinct(s), NEW i \in Tasks
  PROVE  Copies(s, i) = IF i \in Members(s) THEN 1 ELSE 0
<1>1. DOMAIN s = 1..Len(s)
  BY LenProperties
<1>2. CASE i \in Members(s)
  <2>1. PICK m \in 1..Len(s) : s[m] = i
    BY <1>2 DEF Members
  <2>2. {n \in DOMAIN s : s[n] = i} = {m}
    BY <1>1, <2>1 DEF Distinct
  <2> QED
    BY <1>2, <2>2, FS_Singleton DEF Copies
<1>3. CASE i \notin Members(s)
  <2>1. {n \in DOMAIN s : s[n] = i} = {}
    BY <1>1, <1>3 DEF Members
  <2> QED
    BY <1>3, <2>1, FS_EmptySet DEF Copies
<1> QED
  BY <1>2, <1>3

(* A batch goes into the file as a whole, or is lost as a whole.           *)
LEMMA BatchGoes ==
  ASSUME ToolsAssumption, tool \in Tools, WriterTypeOK(Tasks), OnceInFile,
         NEW lines, lines \in Seq(Tasks), OnTheirWay(lines), flushBuffer(lines),
         attempt' = attempt
  PROVE  /\ batch' = <<>> /\ OnceInFile'
         /\ \A i \in Tasks \ Members(lines) : file'[i] = file[i]
         /\ Cardinality(InFile') + missed'.dropped + missed'.lost
               = Cardinality(InFile) + missed.dropped + missed.lost + Len(lines)
<1>1. /\ batch' = <<>>
      /\ file' \in [Tasks -> Nat] /\ missed' \in [dropped: Nat, lost: Nat]
      /\ missed'.dropped = missed.dropped
      /\ \/ /\ \A i \in Tasks : file'[i] = file[i] + Copies(lines, i)
            /\ missed'.lost = missed.lost
         \/ file' = file /\ missed'.lost = missed.lost + Len(lines)
  BY FlushFacts
<1>2. /\ missed.dropped \in Nat /\ missed.lost \in Nat /\ Len(lines) \in Nat
      /\ Cardinality(InFile) \in Nat /\ IsFiniteSet(InFile)
  BY RecordedIsFinite, LenProperties DEF WriterTypeOK
<1>3. Distinct(lines) /\ \A i \in Members(lines) : Recorded(attempt[i]) /\ file[i] = 0
  BY DEF OnTheirWay, Members
<1>4. CASE /\ \A i \in Tasks : file'[i] = file[i] + Copies(lines, i)
           /\ missed'.lost = missed.lost
  <2>1. \A i \in Members(lines) : file'[i] = 1
    <3>1. SUFFICES ASSUME NEW i \in Members(lines)
                   PROVE  file'[i] = 1
      OBVIOUS
    <3>2. i \in Tasks
      BY DEF Members
    <3>3. Copies(lines, i) = 1 /\ file[i] = 0 /\ file'[i] = file[i] + Copies(lines, i)
      BY <1>3, <1>4, <3>2, CopiesOfDistinct
    <3> QED
      BY <3>3
  <2>2. \A i \in Tasks \ Members(lines) : file'[i] = file[i]
    <3>1. SUFFICES ASSUME NEW i \in Tasks \ Members(lines)
                   PROVE  file'[i] = file[i]
      OBVIOUS
    <3>2. Copies(lines, i) = 0 /\ file[i] \in Nat /\ file'[i] = file[i] + Copies(lines, i)
      BY <1>3, <1>4, CopiesOfDistinct DEF WriterTypeOK
    <3> QED
      BY <3>2
  <2>3. OnceInFile'
    BY <1>3, <2>1, <2>2 DEF OnceInFile
  <2>4. InFile' = InFile \cup Members(lines) /\ InFile \cap Members(lines) = {}
    BY <1>3, <2>1, <2>2 DEF InFile, Members
  <2>5. Cardinality(InFile') = Cardinality(InFile) + Len(lines)
    <3>1. IsFiniteSet(Members(lines)) /\ Cardinality(Members(lines)) = Len(lines)
      BY <1>3, DistinctMembers
    <3>2. Cardinality(InFile \cup Members(lines))
            = Cardinality(InFile) + Cardinality(Members(lines)) - Cardinality(InFile \cap Members(lines))
      BY <1>2, <3>1, FS_Union
    <3>3. Cardinality(InFile \cap Members(lines)) = 0
      BY <2>4, FS_EmptySet
    <3> QED
      BY <1>2, <2>4, <3>1, <3>2, <3>3
  <2> QED
    BY <1>1, <1>2, <1>4, <2>2, <2>3, <2>5
<1>5. CASE file' = file /\ missed'.lost = missed.lost + Len(lines)
  <2>1. InFile' = InFile /\ OnceInFile'
    BY <1>5 DEF InFile, OnceInFile
  <2> QED
    BY <1>1, <1>2, <1>5, <2>1
<1> QED
  BY <1>1, <1>4, <1>5

-----------------------------------------------------------------------------
(* The steps of the writer *)

LEMMA WriterFacts ==
  ASSUME ToolsAssumption, Typed
  PROVE  /\ results \in Seq(Tasks) /\ batch \in Seq(Tasks)
         /\ Len(results) \in Nat /\ Len(batch) \in Nat
         /\ missed \in [dropped: Nat, lost: Nat] /\ file \in [Tasks -> Nat]
         /\ WriterTypeOK(Tasks) /\ tool \in Tools
BY LenProperties DEF Typed, WriterTypeOK

(* What was counted or not is not touched, nor is the writer.              *)
LEMMA WriterStays ==
  ASSUME WriterInv, \A i \in Tasks : Recorded(attempt'[i]) <=> Recorded(attempt[i]),
         UNCHANGED writerVars, tool' = tool, results \in Seq(Tasks), batch \in Seq(Tasks),
         toolMain \in {"reported", "ended"} => toolMain' \in {"reported", "ended"}
  PROVE  WriterInv'
<1>1. UNCHANGED <<results, batch, file, missed, writer>>
  BY DEF writerVars
<1> SUFFICES ASSUME writer # "off"
             PROVE  /\ kind'.recorded
                    /\ OnTheirWay(results)' /\ OnTheirWay(batch)' /\ Apart'
                    /\ OnceInFile' /\ ResultsAddUp' /\ StopsLast'
  BY <1>1 DEF WriterInv
<1>2. RecordedTasks' = RecordedTasks /\ InFile' = InFile
  BY <1>1 DEF RecordedTasks, InFile
<1>3. /\ kind.recorded /\ OnTheirWay(results) /\ OnTheirWay(batch) /\ Apart
      /\ OnceInFile /\ ResultsAddUp /\ StopsLast
  BY DEF WriterInv
<1>4. /\ \A n \in 1..Len(results) : results[n] \in Tasks
      /\ \A n \in 1..Len(batch) : batch[n] \in Tasks
  BY ElementOfSeq
<1>5. OnTheirWay(results)' /\ OnTheirWay(batch)'
  BY <1>1, <1>3, <1>4 DEF OnTheirWay
<1>6. Apart' /\ ResultsAddUp'
  BY <1>1, <1>2, <1>3 DEF Apart, ResultsAddUp
<1>7. OnceInFile' /\ StopsLast'
  BY <1>1, <1>3 DEF OnceInFile, StopsLast
<1> QED
  BY <1>3, <1>5, <1>6, <1>7, KindStays

(* A batch is written or lost while the rest stays in the channel.         *)
LEMMA FlushKeeps ==
  ASSUME ToolsAssumption, Typed, WriterInv, writer # "off",
         NEW lines, lines \in Seq(Tasks), OnTheirWay(lines), flushBuffer(lines),
         attempt' = attempt, tool' = tool,
         results' \in Seq(Tasks), Distinct(results'),
         \A m \in 1..Len(results') :
            /\ Recorded(attempt[results'[m]]) /\ file[results'[m]] = 0
            /\ \A n \in 1..Len(lines) : results'[m] # lines[n],
         Len(results') + Len(lines) = Len(results) + Len(batch),
         StopsLast'
  PROVE  WriterInv'
<1>1. /\ kind.recorded /\ OnceInFile /\ ResultsAddUp
  BY DEF WriterInv
<1>2. /\ batch' = <<>> /\ OnceInFile'
      /\ \A i \in Tasks \ Members(lines) : file'[i] = file[i]
      /\ Cardinality(InFile') + missed'.dropped + missed'.lost
            = Cardinality(InFile) + missed.dropped + missed.lost + Len(lines)
  BY <1>1, WriterFacts, BatchGoes
<1>3. OnTheirWay(results)'
  <2>1. ASSUME NEW m \in 1..Len(results')
        PROVE  Recorded(attempt'[results'[m]]) /\ file'[results'[m]] = 0
    <3>1. results'[m] \in Tasks
      BY ElementOfSeq
    <3>2. results'[m] \notin Members(lines)
      BY DEF Members
    <3> QED
      BY <1>2, <3>1, <3>2
  <2> QED
    BY <2>1 DEF OnTheirWay
<1>4. Len(batch') = 0 /\ OnTheirWay(batch)' /\ Apart'
  <2>1. Len(batch') = 0
    BY <1>2
  <2> QED
    BY <2>1 DEF OnTheirWay, Distinct, Apart
<1>5. ResultsAddUp'
  <2>1. missed' \in [dropped: Nat, lost: Nat] /\ Cardinality(InFile') \in Nat
    <3>1. missed' \in [dropped: Nat, lost: Nat]
      BY WriterFacts, FlushFacts
    <3>2. IsFiniteSet(InFile')
      BY WriterFacts, TasksFacts, FS_Subset DEF InFile
    <3> QED
      BY <3>1, <3>2, FS_CardinalityType
  <2>2. /\ Cardinality(InFile) \in Nat /\ Len(results') \in Nat /\ Len(lines) \in Nat
        /\ Len(results) \in Nat /\ Len(batch) \in Nat /\ Cardinality(RecordedTasks) \in Nat
    BY WriterFacts, RecordedIsFinite, LenProperties
  <2>3. missed \in [dropped: Nat, lost: Nat]
    BY WriterFacts
  <2>4. RecordedTasks' = RecordedTasks
    BY DEF RecordedTasks
  <2>5. PICK r, b, f, d, l, all :
           /\ r = Len(results) /\ b = Len(batch) /\ f = Cardinality(InFile)
           /\ d = missed.dropped /\ l = missed.lost /\ all = Cardinality(RecordedTasks)
    OBVIOUS
  <2>6. PICK r2, f2, d2, l2, k :
           /\ r2 = Len(results') /\ f2 = Cardinality(InFile') /\ k = Len(lines)
           /\ d2 = missed'.dropped /\ l2 = missed'.lost
    OBVIOUS
  <2>7. /\ r \in Nat /\ b \in Nat /\ f \in Nat /\ d \in Nat /\ l \in Nat /\ all \in Nat
        /\ r2 \in Nat /\ f2 \in Nat /\ d2 \in Nat /\ l2 \in Nat /\ k \in Nat
        /\ r + b + f + d + l = all
        /\ f2 + d2 + l2 = f + d + l + k /\ r2 + k = r + b
    BY <1>1, <1>2, <2>1, <2>2, <2>3, <2>5, <2>6 DEF ResultsAddUp
  <2>8. r2 + 0 + f2 + d2 + l2 = all
    BY <2>7
  <2> QED
    BY <1>4, <2>4, <2>5, <2>6, <2>8 DEF ResultsAddUp
<1> QED
  BY <1>1, <1>2, <1>3, <1>4, <1>5, KindStays DEF WriterInv

(* A result leaves the channel for the batch.                              *)
LEMMA CollectKeeps ==
  ASSUME ToolsAssumption, Typed, WriterInv, Collect, attempt' = attempt, tool' = tool,
         toolMain' = toolMain
  PROVE  WriterInv'
<1>1. writer # "off"
  BY DEF Collect
<1>2. /\ kind.recorded /\ OnTheirWay(results) /\ OnTheirWay(batch) /\ Apart
      /\ OnceInFile /\ ResultsAddUp /\ StopsLast
  BY <1>1 DEF WriterInv
<1>3. /\ writer' = writer /\ writer \in {"running", "draining"}
      /\ results' \in Seq(Tasks) /\ Len(results) = Len(results') + 1
      /\ results[1] \in Tasks
      /\ \A n \in 1..Len(results') : results'[n] = results[n + 1]
      /\ Append(batch, results[1]) \in Seq(Tasks)
      /\ Len(Append(batch, results[1])) = Len(batch) + 1
      /\ \/ flushBuffer(Append(batch, results[1]))
         \/ /\ batch' = Append(batch, results[1]) /\ Len(batch') < BatchSize
            /\ UNCHANGED <<file, missed>>
  BY WriterFacts, CollectFacts
<1>4. PICK lines, first : lines = Append(batch, results[1]) /\ first = results[1]
  OBVIOUS
<1>5. /\ lines \in Seq(Tasks) /\ Len(lines) = Len(batch) + 1 /\ Len(batch) \in Nat
      /\ \A n \in 1..Len(batch) : lines[n] = batch[n]
      /\ lines[Len(batch) + 1] = first
  BY <1>3, <1>4, WriterFacts, AppendProperties
<1>6. /\ Len(results') \in Nat /\ Len(results) \in Nat
      /\ 1 \in 1..Len(results)
      /\ \A m \in 1..Len(results') : m + 1 \in 1..Len(results) /\ m + 1 # 1
  <2>1. Len(results') \in Nat
    BY <1>3, LenProperties
  <2> QED
    BY <1>3, <2>1
<1>7. \A n \in 1..Len(lines) : n \in 1..Len(batch) \/ n = Len(batch) + 1
  BY <1>5
<1>8. OnTheirWay(lines)
  <2>1. Recorded(attempt[first]) /\ file[first] = 0 /\ \A n \in 1..Len(batch) : first # batch[n]
    BY <1>2, <1>4, <1>6 DEF OnTheirWay, Apart
  <2>2. Distinct(lines)
    <3>1. SUFFICES ASSUME NEW m \in 1..Len(lines), NEW n \in 1..Len(lines), lines[m] = lines[n]
                   PROVE  m = n
      BY DEF Distinct
    <3>2. CASE m \in 1..Len(batch) /\ n \in 1..Len(batch)
      BY <1>2, <1>5, <3>1, <3>2 DEF OnTheirWay, Distinct
    <3>3. CASE m \in 1..Len(batch) /\ n = Len(batch) + 1
      BY <1>5, <2>1, <3>1, <3>3
    <3>4. CASE n \in 1..Len(batch) /\ m = Len(batch) + 1
      BY <1>5, <2>1, <3>1, <3>4
    <3> QED
      BY <1>7, <3>2, <3>3, <3>4
  <2>3. \A n \in 1..Len(lines) : Recorded(attempt[lines[n]]) /\ file[lines[n]] = 0
    BY <1>2, <1>5, <1>7, <2>1 DEF OnTheirWay
  <2> QED
    BY <2>2, <2>3 DEF OnTheirWay
<1>9. /\ Distinct(results')
      /\ \A m \in 1..Len(results') :
            /\ Recorded(attempt[results'[m]]) /\ file[results'[m]] = 0
            /\ \A n \in 1..Len(lines) : results'[m] # lines[n]
  <2>1. ASSUME NEW m \in 1..Len(results')
        PROVE  /\ m + 1 \in 1..Len(results) /\ results'[m] = results[m + 1]
               /\ results[m + 1] # first
    BY <1>2, <1>3, <1>4, <1>6 DEF OnTheirWay, Distinct
  <2>2. Distinct(results')
    <3>1. SUFFICES ASSUME NEW m \in 1..Len(results'), NEW n \in 1..Len(results'),
                          results'[m] = results'[n]
                   PROVE  m = n
      BY DEF Distinct
    <3>2. m + 1 = n + 1
      BY <1>2, <2>1, <3>1 DEF OnTheirWay, Distinct
    <3> QED
      BY <3>2
  <2>3. ASSUME NEW m \in 1..Len(results')
        PROVE  /\ Recorded(attempt[results'[m]]) /\ file[results'[m]] = 0
               /\ \A n \in 1..Len(lines) : results'[m] # lines[n]
    <3>1. Recorded(attempt[results'[m]]) /\ file[results'[m]] = 0
      BY <1>2, <2>1 DEF OnTheirWay
    <3>2. \A n \in 1..Len(batch) : results'[m] # batch[n]
      BY <1>2, <2>1 DEF Apart
    <3> QED
      BY <1>5, <1>7, <2>1, <3>1, <3>2
  <2> QED
    BY <2>2, <2>3
<1>10. Len(results') + Len(lines) = Len(results) + Len(batch)
  BY <1>3, <1>5, <1>6
<1>11. StopsLast'
  <2>1. writer' # "closed"
    BY <1>3
  <2> QED
    BY <1>2, <1>3, <2>1 DEF StopsLast
<1>12. CASE flushBuffer(lines)
  BY <1>1, <1>3, <1>5, <1>8, <1>9, <1>10, <1>11, <1>12, FlushKeeps
<1>13. CASE batch' = lines /\ UNCHANGED <<file, missed>>
  <2>1. OnTheirWay(results)' /\ OnTheirWay(batch)' /\ Apart'
    BY <1>8, <1>9, <1>13 DEF OnTheirWay, Apart
  <2>2. OnceInFile' /\ InFile' = InFile /\ RecordedTasks' = RecordedTasks
    BY <1>2, <1>13 DEF OnceInFile, InFile, RecordedTasks
  <2>3. ResultsAddUp'
    <3>1. Len(results') + Len(batch') = Len(results) + Len(batch)
      BY <1>10, <1>13
    <3> QED
      BY <1>2, <1>13, <2>2, <3>1 DEF ResultsAddUp
  <2> QED
    BY <1>2, <1>11, <2>1, <2>2, <2>3, KindStays DEF WriterInv
<1> QED
  BY <1>3, <1>4, <1>12, <1>13

LEMMA WriteLoopKeeps ==
  ASSUME ToolsAssumption, Typed, WriterInv, WriteLoop, UNCHANGED coreVars, tool' = tool
  PROVE  WriterInv'
<1>1. attempt' = attempt /\ toolMain' = toolMain
  BY DEF coreVars
<1>2. writer # "off"
  BY DEF WriteLoop, Collect, Tick, Drained
<1>3. /\ OnTheirWay(results) /\ OnTheirWay(batch) /\ Apart /\ StopsLast
  BY <1>2 DEF WriterInv
<1>4. /\ results \in Seq(Tasks) /\ batch \in Seq(Tasks)
      /\ Len(results) \in Nat /\ Len(batch) \in Nat
  BY WriterFacts
<1>5. ASSUME flushBuffer(batch), results' = results, StopsLast'
      PROVE  WriterInv'
  <2>1. /\ Distinct(results')
        /\ \A m \in 1..Len(results') :
              /\ Recorded(attempt[results'[m]]) /\ file[results'[m]] = 0
              /\ \A n \in 1..Len(batch) : results'[m] # batch[n]
    BY <1>3, <1>5 DEF OnTheirWay, Apart
  <2>2. results' \in Seq(Tasks) /\ Len(results') + Len(batch) = Len(results) + Len(batch)
    BY <1>4, <1>5
  <2> QED
    BY <1>1, <1>2, <1>3, <1>4, <1>5, <2>1, <2>2, FlushKeeps
<1>6. CASE Collect
  BY <1>1, <1>6, CollectKeeps
<1>7. CASE Tick
  <2>1. flushBuffer(batch) /\ results' = results /\ writer' = writer /\ writer # "closed"
    BY <1>7 DEF Tick
  <2>2. StopsLast'
    BY <1>1, <1>3, <2>1 DEF StopsLast
  <2> QED
    BY <1>5, <2>1, <2>2
<1>8. CASE Drained
  <2>1. /\ flushBuffer(batch) /\ results' = results /\ results = <<>>
        /\ writer = "draining" /\ writer' = "closed"
    BY <1>8 DEF Drained
  <2>2. StopsLast'
    <3>1. batch' = <<>>
      BY <2>1 DEF flushBuffer
    <3>2. Len(results') = 0 /\ Len(batch') = 0
      BY <2>1, <3>1
    <3> QED
      BY <1>1, <1>3, <2>1, <3>2 DEF StopsLast
  <2> QED
    BY <1>5, <2>1, <2>2
<1> QED
  BY <1>6, <1>7, <1>8 DEF WriteLoop

(* An attempt offers its result: it is in the channel, or it is dropped.   *)
LEMMA RecordKeeps ==
  ASSUME ToolsAssumption, Typed, CountsInv, WriterInv, NEW i \in Tasks, Record(i),
         attempt[i].at = "recording", Moved(i, "counting"), tool' = tool
  PROVE  WriterInv'
<1>1. WriteResult(i) /\ toolMain' = toolMain /\ UNCHANGED <<batch, file, writer>>
  BY DEF Record, WriteResult
<1> SUFFICES ASSUME writer # "off"
             PROVE  WriterInv'
  BY <1>1 DEF WriterInv
<1>2. /\ kind.recorded /\ OnTheirWay(results) /\ OnTheirWay(batch) /\ Apart
      /\ OnceInFile /\ ResultsAddUp /\ StopsLast
  BY DEF WriterInv
<1>3. /\ results \in Seq(Tasks) /\ batch \in Seq(Tasks)
      /\ Len(results) \in Nat /\ Len(batch) \in Nat
      /\ missed \in [dropped: Nat, lost: Nat]
  BY WriterFacts
<1>4. /\ ~Recorded(attempt[i]) /\ Recorded(attempt'[i])
      /\ \A j \in Tasks \ {i} : attempt'[j] = attempt[j]
  BY DEF Recorded, Moved, Others
<1>5. writer' # "closed" /\ StopsLast'
  <2>1. toolMain \notin {"reported", "ended"}
    BY DEF CountsInv
  <2>2. writer \notin {"draining", "closed"}
    BY <1>2, <2>1 DEF StopsLast
  <2> QED
    BY <1>1, <2>2 DEF StopsLast
<1>6. Cardinality(RecordedTasks') = Cardinality(RecordedTasks) + 1 /\ Cardinality(RecordedTasks) \in Nat
  <2>1. RecordedTasks' = RecordedTasks \cup {i} /\ i \notin RecordedTasks
    BY <1>4 DEF RecordedTasks
  <2> QED
    BY <2>1, RecordedIsFinite, WriterFacts, FS_AddElement
<1>7. InFile' = InFile /\ OnceInFile'
  BY <1>1, <1>2, <1>4 DEF InFile, OnceInFile
<1>8. ASSUME NEW s, s \in Seq(Tasks), OnTheirWay(s)
      PROVE  \A n \in 1..Len(s) : s[n] # i /\ Recorded(attempt'[s[n]]) /\ file'[s[n]] = 0
  <2>1. SUFFICES ASSUME NEW n \in 1..Len(s)
                 PROVE  s[n] # i /\ Recorded(attempt'[s[n]]) /\ file'[s[n]] = 0
    OBVIOUS
  <2>2. s[n] \in Tasks /\ Recorded(attempt[s[n]]) /\ file[s[n]] = 0
    BY <1>8, ElementOfSeq DEF OnTheirWay
  <2> QED
    BY <1>1, <1>4, <2>2
<1>9. OnTheirWay(batch)'
  BY <1>1, <1>2, <1>3, <1>8 DEF OnTheirWay
<1>10. CASE results' = Append(results, i) /\ UNCHANGED missed
  <2>1. /\ Len(results') = Len(results) + 1
        /\ \A n \in 1..Len(results) : results'[n] = results[n]
        /\ results'[Len(results) + 1] = i
    BY <1>3, <1>10, AppendProperties
  <2>2. \A n \in 1..Len(results') : n \in 1..Len(results) \/ n = Len(results) + 1
    BY <1>3, <2>1
  <2>3. file[i] = 0
    BY <1>2, <1>4 DEF OnceInFile
  <2>4. Distinct(results')
    <3>1. SUFFICES ASSUME NEW m \in 1..Len(results'), NEW n \in 1..Len(results'),
                          results'[m] = results'[n]
                   PROVE  m = n
      BY DEF Distinct
    <3>2. CASE m \in 1..Len(results) /\ n \in 1..Len(results)
      BY <1>2, <2>1, <3>1, <3>2 DEF OnTheirWay, Distinct
    <3>3. CASE m = Len(results) + 1 \/ n = Len(results) + 1
      BY <1>2, <1>3, <1>8, <2>1, <2>2, <3>1, <3>3
    <3> QED
      BY <2>2, <3>2, <3>3
  <2>5. \A n \in 1..Len(results') : Recorded(attempt'[results'[n]]) /\ file'[results'[n]] = 0
    BY <1>1, <1>2, <1>3, <1>4, <1>8, <2>1, <2>2, <2>3
  <2>6. Apart'
    <3>1. \A m \in 1..Len(results'), n \in 1..Len(batch) : results'[m] # batch[n]
      BY <1>2, <1>3, <1>8, <2>1, <2>2 DEF Apart
    <3> QED
      BY <1>1, <3>1 DEF Apart
  <2>7. ResultsAddUp'
    <3>1. Len(results') + Len(batch) + Cardinality(InFile) + missed.dropped + missed.lost
             = Cardinality(RecordedTasks) + 1
      BY <1>2, <1>3, <2>1, RecordedIsFinite, WriterFacts DEF ResultsAddUp
    <3> QED
      BY <1>1, <1>6, <1>7, <1>10, <3>1 DEF ResultsAddUp
  <2> QED
    BY <1>2, <1>5, <1>7, <1>9, <2>4, <2>5, <2>6, <2>7, KindStays DEF WriterInv, OnTheirWay
<1>11. CASE missed' = [missed EXCEPT !.dropped = @ + 1] /\ UNCHANGED results
  <2>1. missed'.dropped = missed.dropped + 1 /\ missed'.lost = missed.lost
    BY <1>3, <1>11
  <2>2. OnTheirWay(results)' /\ Apart'
    BY <1>1, <1>2, <1>3, <1>8, <1>11 DEF OnTheirWay, Apart
  <2>3. ResultsAddUp'
    <3>1. Len(results) + Len(batch) + Cardinality(InFile) + missed'.dropped + missed'.lost
             = Cardinality(RecordedTasks) + 1
      BY <1>2, <1>3, <2>1, RecordedIsFinite, WriterFacts DEF ResultsAddUp
    <3> QED
      BY <1>1, <1>6, <1>7, <1>11, <3>1 DEF ResultsAddUp
  <2> QED
    BY <1>2, <1>5, <1>7, <1>9, <2>2, <2>3, KindStays DEF WriterInv
<1> QED
  BY <1>1, <1>10, <1>11 DEF WriteResult

LEMMA WriterStep ==
  ASSUME ToolsAssumption, Typed, CountsInv, WriterInv, [ToolNext]_toolVars
  PROVE  WriterInv'
<1>1. results \in Seq(Tasks) /\ batch \in Seq(Tasks)
  BY WriterFacts
<1>2. ASSUME attempt' = attempt, UNCHANGED writerVars, tool' = tool,
             toolMain \in {"reported", "ended"} => toolMain' \in {"reported", "ended"}
      PROVE  WriterInv'
  BY <1>1, <1>2, WriterStays
<1>3. ASSUME NEW i \in Tasks, Others(i), Recorded(attempt'[i]) <=> Recorded(attempt[i]),
             UNCHANGED writerVars, tool' = tool,
             toolMain \in {"reported", "ended"} => toolMain' \in {"reported", "ended"}
      PROVE  WriterInv'
  <2>1. \A j \in Tasks : Recorded(attempt'[j]) <=> Recorded(attempt[j])
    BY <1>3 DEF Others
  <2> QED
    BY <1>1, <1>3, <2>1, WriterStays
<1>4. CASE UNCHANGED toolVars
  BY <1>2, <1>4 DEF toolVars, coreVars
<1> SUFFICES ASSUME Steps, tool' = tool
             PROVE  WriterInv'
  BY <1>4 DEF ToolNext
<1>5. CASE MainOnly
  <2>1. CASE Decide \/ Report
    BY <1>2, <2>1 DEF Decide, Report
  <2>2. CASE CloseFile /\ UNCHANGED writerVars
    BY <1>2, <2>2 DEF CloseFile
  <2>3. CASE CloseFile /\ StopWriter
    <3>1. /\ UNCHANGED <<toolMain, attempt, results, batch, file, missed>> /\ toolMain = "reported"
          /\ writer = "running" /\ writer' = "draining"
      BY <2>3 DEF CloseFile, StopWriter
    <3>2. /\ kind.recorded /\ OnTheirWay(results) /\ OnTheirWay(batch) /\ Apart
          /\ OnceInFile /\ ResultsAddUp
      BY <3>1 DEF WriterInv
    <3>3. RecordedTasks' = RecordedTasks /\ InFile' = InFile
      BY <3>1 DEF RecordedTasks, InFile
    <3>4. OnTheirWay(results)' /\ OnTheirWay(batch)' /\ Apart'
      BY <3>1, <3>2 DEF OnTheirWay, Apart
    <3>5. OnceInFile' /\ ResultsAddUp' /\ StopsLast'
      BY <3>1, <3>2, <3>3 DEF OnceInFile, ResultsAddUp, StopsLast
    <3> QED
      BY <3>2, <3>4, <3>5, KindStays DEF WriterInv
  <2> QED
    BY <1>5, <2>1, <2>2, <2>3 DEF MainOnly, CloseFile
<1>6. CASE Enqueue \/ Spawn
  <2>1. /\ Others(Sent) /\ attempt'[Sent].at \in {"queued", "running"} /\ attempt[Sent].at = "none"
        /\ Sent \in Tasks
    BY <1>6, EnqueueFacts, SpawnFacts
  <2>2. UNCHANGED writerVars /\ toolMain = "sending"
    BY <1>6 DEF Enqueue, Spawn
  <2> QED
    BY <1>3, <2>1, <2>2 DEF Recorded
<1>7. CASE Expire
  BY <1>2, <1>7 DEF Expire
<1>8. ASSUME NEW i \in Tasks, Take(i)
      PROVE  WriterInv'
  <2>1. Moved(i, "running") /\ attempt[i].at = "queued"
    BY <1>8, TakeFacts
  <2> QED
    BY <1>3, <1>8, <2>1 DEF Take, Moved, Recorded
<1>9. ASSUME NEW i \in Tasks, Converse(i)
      PROVE  WriterInv'
  <2>1. Conversed(i)
    BY <1>9, ConverseFacts
  <2>2. CASE writer = "off"
    BY <2>1, <2>2 DEF Conversed, writerVars, WriterInv
  <2>3. CASE writer # "off"
    <3>1. OverPlace = "recording"
      BY <2>3 DEF WriterInv, OverPlace
    <3> QED
      BY <1>3, <2>1, <3>1 DEF Conversed, Recorded
  <2> QED
    BY <2>2, <2>3
<1>10. ASSUME NEW i \in Tasks, Account(i)
      PROVE  WriterInv'
  <2>1. UNCHANGED toolMain
    BY <1>10, AccountFacts
  <2>2. CASE Record(i) /\ attempt[i].at = "recording" /\ Moved(i, "counting")
    BY <2>2, RecordKeeps
  <2>3. CASE /\ updateStats(i) /\ attempt[i].at = "counting"
             /\ Moved(i, IF kind.pooled THEN "done" ELSE "releasing")
    BY <1>3, <2>1, <2>3 DEF updateStats, Moved, Recorded
  <2>4. CASE ReleaseSemaphore(i) /\ attempt[i].at = "releasing" /\ Moved(i, "leaving")
    BY <1>3, <2>1, <2>4 DEF ReleaseSemaphore, Moved, Recorded
  <2>5. CASE GroupDone(i) /\ attempt[i].at = "leaving" /\ Moved(i, "done")
    BY <1>3, <2>1, <2>5 DEF GroupDone, Moved, Recorded
  <2> QED
    BY <1>10, <2>2, <2>3, <2>4, <2>5, AccountFacts
<1>11. CASE WriteLoop /\ UNCHANGED coreVars
  BY <1>11, WriteLoopKeeps
<1> QED
  BY <1>5, <1>6, <1>7, <1>8, <1>9, <1>10, <1>11, StepCases

LEMMA WriterStarts ==
  ASSUME ToolsAssumption, ToolInit
  PROVE  WriterInv
<1>1. /\ toolMain = "loop" /\ attempt = [i \in Tasks |-> NoAttempt] /\ tool \in Tools
      /\ results = <<>> /\ batch = <<>> /\ file = [r \in Tasks |-> 0]
      /\ missed = [dropped |-> 0, lost |-> 0]
      /\ writer \in IF kind.recorded THEN {"off", "running"} ELSE {"off"}
  BY DEF ToolInit, WriterInit
<1> SUFFICES ASSUME writer # "off"
             PROVE  WriterInv
  BY DEF WriterInv
<1>2. writer = "running" /\ kind.recorded
  BY <1>1
<1>3. Len(results) = 0 /\ Len(batch) = 0
  BY <1>1
<1>4. OnTheirWay(results) /\ OnTheirWay(batch) /\ Apart
  BY <1>3 DEF OnTheirWay, Distinct, Apart
<1>5. \A i \in Tasks : ~Recorded(attempt[i]) /\ file[i] = 0
  BY <1>1, NoAttemptIs DEF Recorded
<1>6. RecordedTasks = {} /\ InFile = {} /\ OnceInFile
  BY <1>5 DEF RecordedTasks, InFile, OnceInFile
<1>7. ResultsAddUp
  BY <1>1, <1>3, <1>6, FS_EmptySet DEF ResultsAddUp
<1> QED
  BY <1>2, <1>4, <1>6, <1>7 DEF WriterInv, StopsLast

LEMMA WriterHolds == ASSUME ToolsAssumption PROVE ToolSpec => []WriterInv
<1>1. ToolInit => WriterInv
  BY WriterStarts
<1>2. Typed /\ CountsInv /\ WriterInv /\ [ToolNext]_toolVars => WriterInv'
  BY WriterStep
<1> QED
  BY <1>1, <1>2, TypedHolds, CountsHold, PTL DEF ToolSpec

-----------------------------------------------------------------------------
(* The semaphore *)

Holding == InState({"running", "counting", "releasing"})

(* Who is behind the semaphore has a place in it; an attempt begins with   *)
(* its first stage.                                                        *)
SemaphoreInv ==
    /\ \A i \in Tasks : /\ attempt[i].at = "none" => attempt[i].stage = 1
                        /\ attempt[i].at = "recording" => kind.recorded
    /\ ~kind.pooled => Cardinality(Holding) <= tool.clients

LEMMA HoldingIsFinite ==
  ASSUME ToolsAssumption, tool \in Tools
  PROVE  IsFiniteSet(Holding) /\ Cardinality(Holding) \in Nat /\ tool.clients \in Nat
<1>1. IsFiniteSet(Holding)
  BY TasksFacts, FS_Subset DEF Holding, InState
<1> QED
  BY <1>1, FS_CardinalityType, ToolFacts

(* An attempt that takes no new place.                                     *)
LEMMA SemaphoreStays ==
  ASSUME ToolsAssumption, Typed, SemaphoreInv, NEW i \in Tasks, Others(i), tool' = tool,
         attempt'[i].at # "none", attempt'[i].at = "recording" => kind.recorded,
         ~kind.pooled /\ i \in Holding' => i \in Holding
  PROVE  SemaphoreInv'
<1>1. \A j \in Tasks : /\ attempt'[j].at = "none" => attempt'[j].stage = 1
                       /\ attempt'[j].at = "recording" => kind.recorded
  BY DEF Others, SemaphoreInv
<1>2. ASSUME ~kind.pooled
      PROVE  Cardinality(Holding') <= tool.clients
  <2>1. Holding' \subseteq Holding
    BY <1>2 DEF Holding, InState, Others
  <2>2. Cardinality(Holding') <= Cardinality(Holding) /\ Cardinality(Holding') \in Nat
    BY <2>1, HoldingIsFinite, FS_Subset, FS_CardinalityType DEF Typed
  <2> QED
    BY <1>2, <2>2, HoldingIsFinite DEF SemaphoreInv, Typed
<1> QED
  BY <1>1, <1>2, KindStays DEF SemaphoreInv

LEMMA SemaphoreStep ==
  ASSUME ToolsAssumption, Typed, SemaphoreInv, [ToolNext]_toolVars
  PROVE  SemaphoreInv'
<1>1. ASSUME attempt' = attempt, tool' = tool
      PROVE  SemaphoreInv'
  BY <1>1, KindStays DEF SemaphoreInv, Holding, InState
<1>2. CASE UNCHANGED toolVars
  BY <1>1, <1>2 DEF toolVars, coreVars
<1> SUFFICES ASSUME Steps, tool' = tool
             PROVE  SemaphoreInv'
  BY <1>2 DEF ToolNext
<1>3. KindFits(kind)
  BY KindFacts DEF Typed
<1>4. CASE MainOnly
  BY <1>1, <1>4 DEF MainOnly, Decide, Report, CloseFile
<1>5. CASE Enqueue
  <2>1. Others(Sent) /\ attempt'[Sent].at = "queued" /\ Sent \in Tasks
    BY <1>5, EnqueueFacts
  <2> QED
    BY <2>1, SemaphoreStays DEF Holding, InState
<1>6. CASE Spawn
  <2>1. PICK i \in Tasks : i = Sent
    BY <1>6, SpawnFacts
  <2>2. Others(i) /\ attempt'[i].at = "running" /\ attempt[i].at = "none"
    BY <1>6, <2>1, SpawnFacts
  <2>3. Cardinality(Holding) < tool.clients
    BY <1>6 DEF Spawn, Holding
  <2>4. Holding' = Holding \cup {i} /\ i \notin Holding
    BY <2>2 DEF Holding, InState, Others
  <2>5. Cardinality(Holding') = Cardinality(Holding) + 1
    BY <2>4, HoldingIsFinite, FS_AddElement DEF Typed
  <2>6. Cardinality(Holding') <= tool.clients
    BY <2>3, <2>5, HoldingIsFinite DEF Typed
  <2>7. \A j \in Tasks : /\ attempt'[j].at = "none" => attempt'[j].stage = 1
                         /\ attempt'[j].at = "recording" => kind.recorded
    BY <2>2 DEF Others, SemaphoreInv
  <2> QED
    BY <2>6, <2>7, KindStays DEF SemaphoreInv
<1>7. CASE Expire
  BY <1>1, <1>7 DEF Expire
<1>8. ASSUME NEW i \in Tasks, Take(i)
      PROVE  SemaphoreInv'
  <2>1. Moved(i, "running") /\ kind.pooled
    BY <1>8, TakeFacts
  <2> QED
    BY <2>1, SemaphoreStays DEF Moved
<1>9. ASSUME NEW i \in Tasks, Converse(i)
      PROVE  SemaphoreInv'
  <2>1. Others(i) /\ attempt[i].at = "running" /\ attempt'[i].at \in {"running", OverPlace}
    BY <1>9, ConverseFacts DEF Conversed
  <2>2. i \in Holding
    BY <2>1 DEF Holding, InState
  <2> QED
    BY <2>1, <2>2, SemaphoreStays DEF OverPlace
<1>10. ASSUME NEW i \in Tasks, Account(i)
      PROVE  SemaphoreInv'
  <2>1. CASE attempt[i].at = "recording" /\ Moved(i, "counting")
    <3>1. kind.pooled
      BY <1>3, <2>1 DEF SemaphoreInv, KindFits
    <3> QED
      BY <2>1, <3>1, SemaphoreStays DEF Moved
  <2>2. CASE attempt[i].at = "counting" /\ Moved(i, IF kind.pooled THEN "done" ELSE "releasing")
    <3>1. i \in Holding /\ attempt'[i].at \in {"done", "releasing"}
      BY <2>2 DEF Holding, InState, Moved
    <3> QED
      BY <2>2, <3>1, SemaphoreStays DEF Moved
  <2>3. CASE attempt[i].at = "releasing" /\ Moved(i, "leaving")
    BY <2>3, SemaphoreStays DEF Moved, Holding, InState
  <2>4. CASE attempt[i].at = "leaving" /\ Moved(i, "done")
    BY <2>4, SemaphoreStays DEF Moved, Holding, InState
  <2> QED
    BY <1>10, <2>1, <2>2, <2>3, <2>4, AccountFacts
<1>11. CASE WriteLoop /\ UNCHANGED coreVars
  BY <1>1, <1>11 DEF coreVars
<1> QED
  BY <1>4, <1>5, <1>6, <1>7, <1>8, <1>9, <1>10, <1>11, StepCases

LEMMA SemaphoreStarts ==
  ASSUME ToolsAssumption, ToolInit
  PROVE  SemaphoreInv
<1>1. attempt = [i \in Tasks |-> NoAttempt] /\ tool \in Tools
  BY DEF ToolInit
<1>2. \A i \in Tasks : attempt[i].at = "none" /\ attempt[i].stage = 1
  BY <1>1, NoAttemptIs
<1>3. Holding = {}
  BY <1>2 DEF Holding, InState
<1>4. Cardinality(Holding) = 0
  BY <1>3, FS_EmptySet
<1>5. 0 <= tool.clients
  BY <1>1, ToolFacts
<1> QED
  BY <1>2, <1>4, <1>5 DEF SemaphoreInv

LEMMA SemaphoreHolds == ASSUME ToolsAssumption PROVE ToolSpec => []SemaphoreInv
<1>1. ToolInit => SemaphoreInv
  BY SemaphoreStarts
<1>2. Typed /\ SemaphoreInv /\ [ToolNext]_toolVars => SemaphoreInv'
  BY SemaphoreStep
<1> QED
  BY <1>1, <1>2, TypedHolds, PTL DEF ToolSpec

-----------------------------------------------------------------------------
(* The file of tokens *)

Titles(lines) == Cardinality({n \in DOMAIN lines : lines[n] = "token_id"})

Appending == {i \in Tasks : In(i, "append")}

(* Those that are going to write a title.                                  *)
Heralds == {i \in Appending : attempt[i].empty}

(* As long as the file is empty everybody who is about to append has seen  *)
(* it so; the titles that are there and those to come are no more than the *)
(* attempts that could look at the empty file together.                    *)
TokenInv ==
    /\ tokens # <<>> => tokens[1] = "token_id"
    /\ tokens = <<>> => \A i \in Appending : attempt[i].empty
    /\ Titles(tokens) + Cardinality(Heralds) <= tool.clients

LEMMA TitlesAreCounted ==
  ASSUME NEW lines, lines \in Seq(Lines)
  PROVE  /\ IsFiniteSet({n \in DOMAIN lines : lines[n] = "token_id"})
         /\ Titles(lines) \in Nat
         /\ lines = <<>> => Titles(lines) = 0
<1>1. DOMAIN lines = 1..Len(lines) /\ 1 \in Int /\ Len(lines) \in Int
  BY LenProperties
<1>2. IsFiniteSet({n \in DOMAIN lines : lines[n] = "token_id"})
  BY <1>1, FS_Interval, FS_Subset
<1>3. lines = <<>> => {n \in DOMAIN lines : lines[n] = "token_id"} = {}
  OBVIOUS
<1> QED
  BY <1>2, <1>3, FS_CardinalityType, FS_EmptySet DEF Titles

LEMMA TitleAdded ==
  ASSUME NEW lines, lines \in Seq(Lines), NEW x, x \in Lines
  PROVE  /\ Append(lines, x) \in Seq(Lines) /\ Append(lines, x) # <<>>
         /\ lines # <<>> => Append(lines, x)[1] = lines[1]
         /\ lines = <<>> => Append(lines, x)[1] = x
         /\ Titles(Append(lines, x)) = IF x = "token_id" THEN Titles(lines) + 1 ELSE Titles(lines)
<1>1. PICK all : all = Append(lines, x)
  OBVIOUS
<1>2. PICK k \in Nat : k = Len(lines)
  BY LenProperties
<1>3. /\ all \in Seq(Lines) /\ Len(all) = k + 1
      /\ \A n \in 1..k : all[n] = lines[n]
      /\ all[k + 1] = x
  BY <1>1, <1>2, AppendProperties
<1>4. DOMAIN lines = 1..k /\ DOMAIN all = 1..(k + 1)
  BY <1>2, <1>3, LenProperties
<1>5. PICK T, U : /\ T = {n \in DOMAIN lines : lines[n] = "token_id"}
                  /\ U = {n \in DOMAIN all : all[n] = "token_id"}
  OBVIOUS
<1>6. IsFiniteSet(T) /\ Titles(lines) = Cardinality(T) /\ Titles(all) = Cardinality(U)
  BY <1>5, TitlesAreCounted DEF Titles
<1>7. \A n : n \in 1..(k + 1) <=> n \in 1..k \/ n = k + 1
  BY <1>2
<1>8. k + 1 \notin 1..k
  BY <1>2
<1>9. x = "token_id" => Titles(all) = Titles(lines) + 1
  <2>1. SUFFICES ASSUME x = "token_id"
                 PROVE  Cardinality(U) = Cardinality(T) + 1
    BY <1>6
  <2>2. U = T \cup {k + 1} /\ k + 1 \notin T
    BY <1>3, <1>4, <1>5, <1>7, <1>8, <2>1
  <2> QED
    BY <1>6, <2>2, FS_AddElement
<1>10. x # "token_id" => Titles(all) = Titles(lines)
  <2>1. SUFFICES ASSUME x # "token_id"
                 PROVE  U = T
    BY <1>6
  <2> QED
    BY <1>3, <1>4, <1>5, <1>7, <1>8, <2>1
<1>11. all # <<>>
  BY <1>2, <1>3
<1>12. lines # <<>> => k \in Nat \ {0} /\ 1 \in 1..k
  BY <1>2, EmptySeq
<1>13. lines = <<>> => k + 1 = 1
  BY <1>2
<1> QED
  BY <1>1, <1>3, <1>9, <1>10, <1>11, <1>12, <1>13

LEMMA HeraldsAreFinite ==
  ASSUME ToolsAssumption, tool \in Tools
  PROVE  IsFiniteSet(Heralds) /\ Cardinality(Heralds) \in Nat
<1>1. IsFiniteSet(Heralds)
  BY TasksFacts, FS_Subset DEF Heralds, Appending
<1> QED
  BY <1>1, FS_CardinalityType

(* A step that makes nobody ready to append, and appends nothing.          *)
LEMMA TokensStay ==
  ASSUME ToolsAssumption, Typed, TokenInv, tool' = tool, tokens' = tokens,
         NEW i \in Tasks, Others(i), i \notin Appending'
  PROVE  TokenInv'
<1>1. kind' = kind
  BY KindStays
<1>2. \A j \in Tasks \ {i} : attempt'[j] = attempt[j] /\ (j \in Appending' <=> j \in Appending)
  BY <1>1 DEF Others, Appending, In, Now
<1>3. Appending' \subseteq Appending /\ Heralds' \subseteq Heralds
  BY <1>2 DEF Heralds, Appending
<1>4. Cardinality(Heralds') <= Cardinality(Heralds) /\ Cardinality(Heralds') \in Nat
  BY <1>3, HeraldsAreFinite, FS_Subset, FS_CardinalityType DEF Typed
<1>5. Titles(tokens) + Cardinality(Heralds') <= tool.clients
  <2>1. tool.clients \in Nat /\ Titles(tokens) \in Nat /\ Cardinality(Heralds) \in Nat
    BY ToolFacts, TitlesAreCounted, HeraldsAreFinite DEF Typed
  <2> QED
    BY <1>4, <2>1 DEF TokenInv
<1>6. tokens = <<>> => \A j \in Appending' : attempt'[j].empty
  BY <1>2, <1>3 DEF TokenInv, Appending
<1> QED
  BY <1>5, <1>6 DEF TokenInv

(* From which stage an attempt comes to append.                            *)
LEMMA BeforeAppending ==
  ASSUME ToolsAssumption, Typed, NEW i \in Tasks, attempt[i].at = "running", tool' = tool,
         attempt'[i].stage = Further(i).stage, attempt'[i].at = Further(i).at,
         i \in Appending'
  PROVE  /\ Now(i).name = "stat" /\ ~kind.pooled
         /\ Further(i).at = "running" /\ Further(i).empty = attempt[i].empty
<1>1. kind' = kind
  BY KindStays
<1>2. Further(i).at = "running" /\ kind.stages[Further(i).stage].name = "append"
  BY <1>1 DEF Appending, In, Now
<1>3. Further(i).stage = attempt[i].stage + 1 /\ Further(i).empty = attempt[i].empty
  BY <1>2, FurtherFacts DEF OverPlace
<1>4. PICK n, all : n = attempt[i].stage /\ all = Len(kind.stages)
  OBVIOUS
<1>5. n \in 1..all /\ all \in 1..8 /\ n + 1 <= all
  BY <1>3, <1>4, NowFacts, FurtherFacts
<1>6. n \in 1..all /\ n + 1 \in 1..all /\ (n + 1) - 1 = n
  BY <1>5
<1>7. StagesFit(kind.stages)
  BY KindFacts DEF Typed, KindFits
<1>8. kind.stages[n].name = "stat"
  BY <1>2, <1>3, <1>4, <1>6, <1>7 DEF StagesFit
<1>9. ~kind.pooled
  BY <1>4, <1>6, <1>8, KindFacts DEF Typed
<1> QED
  BY <1>2, <1>3, <1>4, <1>8, <1>9 DEF Now

(* An attempt looks at the file before it appends.                         *)
LEMMA StatKeeps ==
  ASSUME ToolsAssumption, Typed, SemaphoreInv', TokenInv, NEW i \in Tasks, StatTokens(i),
         tool' = tool
  PROVE  TokenInv'
<1>1. tokens' = tokens /\ attempt[i].at = "running" /\ tokens \in Seq(Lines)
  BY DEF StatTokens, In, Typed
<1>2. Others(i)
  BY ConverseFacts DEF Converse, Conversed
<1>3. CASE i \notin Appending'
  BY <1>1, <1>2, <1>3, TokensStay
<1>4. CASE i \in Appending'
  <2>1. PICK a, b : a = Further(i) /\ b = (tokens = <<>>)
    OBVIOUS
  <2>2. a \in AttemptRecord /\ b \in BOOLEAN
    BY <1>1, <2>1, FurtherFacts
  <2>3. attempt'[i] = SetEmpty(a, b)
    <3>1. attempt' = [attempt EXCEPT ![i] = SetEmpty(a, b)]
      BY <2>1 DEF StatTokens, SetEmpty
    <3>2. SetEmpty(a, b) \in AttemptRecord
      BY <2>2, SetEmptyFacts
    <3> QED
      BY <3>1, <3>2, Replaced
  <2>4. attempt'[i].at = a.at /\ attempt'[i].stage = a.stage /\ attempt'[i].empty = b
    BY <2>2, <2>3, SetEmptyFacts
  <2>5. ~kind.pooled
    BY <1>1, <1>4, <2>1, <2>4, BeforeAppending
  <2>6. \A j \in Tasks \ {i} : attempt'[j] = attempt[j] /\ (j \in Appending' <=> j \in Appending)
    BY <1>2, KindStays DEF Others, Appending, In, Now
  <2>7. tool.clients \in Nat /\ Titles(tokens) \in Nat /\ Cardinality(Heralds) \in Nat
    BY <1>1, ToolFacts, TitlesAreCounted, HeraldsAreFinite DEF Typed
  <2>8. CASE tokens = <<>>
    <3>1. Heralds' \subseteq Holding'
      BY DEF Heralds, Appending, Holding, InState, In
    <3>2. IsFiniteSet(Holding') /\ Cardinality(Holding') <= tool.clients
      <4>1. IsFiniteSet(Holding')
        BY TasksFacts, FS_Subset DEF Holding, InState, Typed
      <4> QED
        BY <2>5, <4>1, KindStays DEF SemaphoreInv
    <3>3. Cardinality(Heralds') <= tool.clients /\ Cardinality(Heralds') \in Nat
      <4>1. /\ Cardinality(Heralds') <= Cardinality(Holding') /\ Cardinality(Holding') \in Nat
            /\ Cardinality(Heralds') \in Nat
        BY <3>1, <3>2, FS_Subset, FS_CardinalityType
      <4> QED
        BY <2>7, <3>2, <4>1
    <3>4. Titles(tokens) = 0
      BY <1>1, <2>8, TitlesAreCounted
    <3>5. Titles(tokens) + Cardinality(Heralds') <= tool.clients
      BY <3>3, <3>4
    <3>6. \A j \in Appending' : attempt'[j].empty
      <4>1. attempt'[i].empty
        BY <2>1, <2>4, <2>8
      <4> QED
        BY <2>6, <2>8, <4>1 DEF TokenInv, Appending
    <3> QED
      BY <1>1, <2>8, <3>5, <3>6 DEF TokenInv
  <2>9. CASE tokens # <<>>
    <3>1. ~attempt'[i].empty
      BY <2>1, <2>4, <2>9
    <3>2. Heralds' \subseteq Heralds
      BY <2>6, <3>1 DEF Heralds, Appending
    <3>3. Cardinality(Heralds') <= Cardinality(Heralds) /\ Cardinality(Heralds') \in Nat
      BY <3>2, HeraldsAreFinite, FS_Subset, FS_CardinalityType DEF Typed
    <3>4. Titles(tokens) + Cardinality(Heralds') <= tool.clients
      BY <2>7, <3>3 DEF TokenInv
    <3> QED
      BY <1>1, <2>9, <3>4 DEF TokenInv
  <2> QED
    BY <2>8, <2>9
<1> QED
  BY <1>3, <1>4

(* An attempt appends, and is over.                                        *)
LEMMA AppendKeeps ==
  ASSUME ToolsAssumption, Typed, TokenInv, NEW i \in Tasks, AppendToken(i), tool' = tool
  PROVE  TokenInv'
<1>1. attempt[i].at = "running" /\ Now(i).name = "append" /\ i \in Appending
  BY DEF AppendToken, In, Appending
<1>2. Others(i) /\ attempt'[i] = Further(i)
  <2>1. Further(i) \in AttemptRecord
    BY <1>1, FurtherFacts
  <2> QED
    BY <2>1, Replaced DEF AppendToken
<1>3. i \notin Appending'
  <2>1. SUFFICES ASSUME i \in Appending'
                 PROVE  FALSE
    OBVIOUS
  <2>2. Now(i).name = "stat"
    BY <1>1, <1>2, <2>1, BeforeAppending
  <2> QED
    BY <1>1, <2>2
<1>4. \A j \in Tasks \ {i} : attempt'[j] = attempt[j] /\ (j \in Appending' <=> j \in Appending)
  BY <1>2, KindStays DEF Others, Appending, In, Now
<1>5. Heralds' = Heralds \ {i}
  BY <1>3, <1>4 DEF Heralds, Appending
<1>6. tokens \in Seq(Lines) /\ "token" \in Lines /\ "token_id" \in Lines
  BY TitleIs DEF Typed
<1>7. /\ tool.clients \in Nat /\ Titles(tokens) \in Nat
      /\ IsFiniteSet(Heralds) /\ Cardinality(Heralds) \in Nat
  BY <1>6, ToolFacts, TitlesAreCounted, HeraldsAreFinite DEF Typed
<1>8. /\ tokens # <<>> => tokens[1] = "token_id"
      /\ tokens = <<>> => attempt[i].empty
      /\ Titles(tokens) + Cardinality(Heralds) <= tool.clients
  BY <1>1 DEF TokenInv
<1>9. CASE ~attempt[i].empty
  <2>1. tokens' = Append(tokens, "token") /\ tokens # <<>>
    BY <1>8, <1>9, AppendTokenFacts
  <2>2. tokens' # <<>> /\ tokens'[1] = "token_id" /\ Titles(tokens') = Titles(tokens)
    BY <1>6, <1>8, <2>1, TitleAdded
  <2>3. i \notin Heralds
    BY <1>9 DEF Heralds
  <2>4. Heralds' = Heralds
    BY <1>5, <2>3
  <2> QED
    BY <1>8, <2>2, <2>4 DEF TokenInv
<1>10. CASE attempt[i].empty
  <2>1. PICK lines : lines = Append(tokens, "token_id")
    OBVIOUS
  <2>2. /\ lines \in Seq(Lines) /\ lines # <<>> /\ lines[1] = "token_id"
        /\ Titles(lines) = Titles(tokens) + 1
    BY <1>6, <1>8, <2>1, TitleAdded
  <2>3. tokens' = Append(lines, "token")
    BY <1>10, <2>1, AppendTokenFacts
  <2>4. tokens' # <<>> /\ tokens'[1] = "token_id" /\ Titles(tokens') = Titles(tokens) + 1
    BY <1>6, <2>2, <2>3, TitleAdded
  <2>5. i \in Heralds
    BY <1>1, <1>10 DEF Heralds
  <2>6. Cardinality(Heralds') = Cardinality(Heralds) - 1
    BY <1>5, <1>7, <2>5, FS_RemoveElement
  <2>7. Titles(tokens') + Cardinality(Heralds') <= tool.clients
    BY <1>7, <1>8, <2>4, <2>6
  <2> QED
    BY <2>4, <2>7 DEF TokenInv
<1> QED
  BY <1>9, <1>10

LEMMA TokenStep ==
  ASSUME ToolsAssumption, Typed, SemaphoreInv, SemaphoreInv', TokenInv, [ToolNext]_toolVars
  PROVE  TokenInv'
<1>1. ASSUME attempt' = attempt, tool' = tool, tokens' = tokens
      PROVE  TokenInv'
  <2>1. Appending' = Appending /\ Heralds' = Heralds
    BY <1>1, KindStays DEF Appending, Heralds, In, Now
  <2> QED
    BY <1>1, <2>1 DEF TokenInv
<1>2. CASE UNCHANGED toolVars
  BY <1>1, <1>2 DEF toolVars, coreVars
<1> SUFFICES ASSUME Steps, tool' = tool
             PROVE  TokenInv'
  BY <1>2 DEF ToolNext
<1>3. ASSUME NEW i \in Tasks, Others(i), attempt'[i].at # "running", tokens' = tokens
      PROVE  TokenInv'
  <2>1. i \notin Appending'
    BY <1>3 DEF Appending, In
  <2> QED
    BY <1>3, <2>1, TokensStay
<1>4. StagesFit(kind.stages) /\ kind' = kind
  BY KindFacts, KindStays DEF Typed, KindFits
<1>5. CASE MainOnly
  BY <1>1, <1>5 DEF MainOnly, Decide, Report, CloseFile
<1>6. CASE Enqueue
  BY <1>3, <1>6, EnqueueFacts DEF Enqueue
<1>7. CASE Spawn
  <2>1. PICK i \in Tasks : i = Sent
    BY <1>7, SpawnFacts
  <2>2. Others(i) /\ attempt'[i].stage = attempt[i].stage /\ attempt[i].at = "none"
    BY <1>7, <2>1, SpawnFacts
  <2>3. attempt'[i].stage = 1
    BY <2>2 DEF SemaphoreInv
  <2>4. kind.stages[1].name # "append"
    <3>1. 1 \in 1..Len(kind.stages) /\ ~(1 > 1)
      <4>1. PICK all : all = Len(kind.stages)
        OBVIOUS
      <4>2. all \in 1..8
        BY <1>4, <4>1 DEF StagesFit
      <4>3. 1 \in 1..all
        BY <4>2
      <4> QED
        BY <4>1, <4>3
    <3> QED
      BY <1>4, <3>1 DEF StagesFit
  <2>5. i \notin Appending'
    BY <1>4, <2>3, <2>4 DEF Appending, In, Now
  <2> QED
    BY <1>7, <2>2, <2>5, TokensStay DEF Spawn
<1>8. CASE Expire
  BY <1>1, <1>8 DEF Expire
<1>9. ASSUME NEW i \in Tasks, Take(i)
      PROVE  TokenInv'
  <2>1. Moved(i, "running") /\ kind.pooled
    BY <1>9, TakeFacts
  <2>2. attempt'[i].stage \in 1..Len(kind.stages)
    <3>1. PICK n, all : n = attempt'[i].stage /\ all = Len(kind.stages)
      OBVIOUS
    <3>2. n = attempt[i].stage /\ n \in 1..8 /\ n <= all
      BY <2>1, <3>1, AttemptFields DEF Typed, StagesExist, Moved
    <3>3. all \in 1..8
      BY <1>4, <3>1 DEF StagesFit
    <3>4. n \in 1..all
      BY <3>2, <3>3
    <3> QED
      BY <3>1, <3>4
  <2>3. kind.stages[attempt'[i].stage].name # "append"
    BY <2>1, <2>2, KindFacts DEF Typed
  <2>4. i \notin Appending'
    BY <1>4, <2>3 DEF Appending, In, Now
  <2> QED
    BY <1>9, <2>1, <2>4, TokensStay DEF Take, Moved
<1>10. ASSUME NEW i \in Tasks, Converse(i)
       PROVE  TokenInv'
  <2>1. Others(i) /\ attempt[i].at = "running"
    BY <1>10, ConverseFacts DEF Conversed
  <2>2. CASE Passes(i)
    <3>1. attempt'[i] = Further(i)
      <4>1. Further(i) \in AttemptRecord
        BY <2>1, FurtherFacts
      <4> QED
        BY <2>2, <4>1, Replaced DEF Passes
    <3>2. i \notin Appending'
      BY <2>1, <2>2, <3>1, BeforeAppending DEF Passes
    <3> QED
      BY <2>1, <2>2, <3>2, TokensStay DEF Passes
  <2>3. CASE DialsAgain(i)
    <3>1. Now(i).name = "dial"
      BY <2>3 DEF DialsAgain, In
    <3>2. attempt'[i].stage = attempt[i].stage
      <4>1. attempt[i] \in AttemptRecord /\ attempt \in [Tasks -> AttemptRecord]
        BY DEF Typed
      <4>2. attempt'[i] = [attempt[i] EXCEPT !.tries = @ + 1]
        BY <2>3, <4>1 DEF DialsAgain
      <4> QED
        BY <4>1, <4>2 DEF AttemptRecord
    <3>3. i \notin Appending'
      BY <1>4, <3>1, <3>2 DEF Appending, In, Now
    <3> QED
      BY <2>1, <2>3, <3>3, TokensStay DEF DialsAgain
  <2>4. CASE Fails(i)
    <3>1. PICK ok : ok = Now(i).harmless
      OBVIOUS
    <3>2. ok \in BOOLEAN
      BY <2>1, <3>1, NowFacts
    <3>3. Over(i, ok) \in AttemptRecord /\ Over(i, ok).at = OverPlace
      BY <3>2, OverFacts
    <3>4. attempt'[i] = Over(i, ok)
      BY <2>4, <3>1, <3>3, Replaced DEF Fails
    <3>5. attempt'[i].at # "running"
      BY <3>3, <3>4 DEF OverPlace
    <3> QED
      BY <1>3, <2>1, <2>4, <3>5 DEF Fails
  <2>5. CASE StatTokens(i)
    BY <2>5, StatKeeps
  <2>6. CASE AppendToken(i)
    BY <2>6, AppendKeeps
  <2> QED
    BY <1>10, <2>2, <2>3, <2>4, <2>5, <2>6 DEF Converse
<1>11. ASSUME NEW i \in Tasks, Account(i)
       PROVE  TokenInv'
  <2>1. \/ Moved(i, "counting") \/ Moved(i, IF kind.pooled THEN "done" ELSE "releasing")
        \/ Moved(i, "leaving") \/ Moved(i, "done")
    BY <1>11, AccountFacts
  <2>2. Others(i) /\ attempt'[i].at # "running"
    BY <2>1 DEF Moved
  <2> QED
    BY <1>3, <1>11, <2>2, AccountFacts
<1>12. CASE WriteLoop /\ UNCHANGED coreVars
  BY <1>1, <1>12 DEF coreVars
<1> QED
  BY <1>5, <1>6, <1>7, <1>8, <1>9, <1>10, <1>11, <1>12, StepCases

(* The file of an earlier run has its title.                               *)
LEMMA TokensStart ==
  ASSUME ToolsAssumption, ToolInit
  PROVE  TokenInv
<1>1. /\ attempt = [i \in Tasks |-> NoAttempt] /\ tool \in Tools
      /\ tokens \in {<<>>, <<"token_id", "token">>}
  BY DEF ToolInit
<1>2. Heralds = {} /\ Appending = {}
  BY <1>1, NoAttemptIs DEF Heralds, Appending, In
<1>3. Cardinality(Heralds) = 0
  BY <1>2, FS_EmptySet
<1>4. tool.clients \in Nat /\ 1 <= tool.clients
  BY <1>1, ToolFacts
<1>5. CASE tokens = <<>>
  <2>1. Titles(tokens) = 0
    BY <1>5, TitleIs, TitlesAreCounted
  <2> QED
    BY <1>2, <1>3, <1>4, <1>5, <2>1 DEF TokenInv
<1>6. CASE tokens = <<"token_id", "token">>
  <2>1. PICK none, one : none = <<>> /\ one = Append(none, "token_id")
    OBVIOUS
  <2>2. none \in Seq(Lines) /\ Titles(none) = 0
    BY <2>1, TitleIs, TitlesAreCounted
  <2>3. one \in Seq(Lines) /\ Titles(one) = Titles(none) + 1 /\ one[1] = "token_id" /\ one # <<>>
    BY <2>1, <2>2, TitleIs, TitleAdded
  <2>4. Titles(one) = 1
    BY <2>2, <2>3
  <2>5. tokens = Append(one, "token")
    BY <1>6, <2>1
  <2>6. Titles(tokens) = 1 /\ tokens # <<>> /\ tokens[1] = "token_id"
    BY <2>3, <2>4, <2>5, TitleIs, TitleAdded
  <2> QED
    BY <1>3, <1>4, <2>6 DEF TokenInv
<1> QED
  BY <1>1, <1>5, <1>6

LEMMA TokensHold == ASSUME ToolsAssumption PROVE ToolSpec => []TokenInv
<1>1. ToolInit => TokenInv
  BY TokensStart
<1>2. Typed /\ SemaphoreInv /\ SemaphoreInv' /\ TokenInv /\ [ToolNext]_toolVars => TokenInv'
  BY TokenStep
<1> QED
  BY <1>1, <1>2, TypedHolds, SemaphoreHolds, PTL DEF ToolSpec

(* What the tools leave in their files agrees with what they report, for   *)
(* any number of clients and attempts and any size of the channel and of   *)
(* the batches: no result is in the file of EMMProxy twice, its lines are  *)
(* as many as the counters say but for the results it missed; the file of  *)
(* tokens of quic-client begins with its title, which is there no more     *)
(* often than there are clients.                                           *)
THEOREM FilesAgree == ASSUME ToolsAssumption PROVE ToolSpec => []FilesAgreeWithReport
<1>1. ASSUME Typed, CountsInv, WriterInv, writer = "closed"
      PROVE  /\ \A i \in Tasks : file[i] <= 1
             /\ Cardinality({i \in Tasks : file[i] = 1}) + missed.dropped + missed.lost
                   = counts.success + counts.fail
  <2>1. /\ OnceInFile /\ ResultsAddUp /\ Len(results) = 0 /\ Len(batch) = 0
        /\ toolMain \in {"reported", "ended"}
    BY <1>1 DEF WriterInv, StopsLast
  <2>2. \A i \in Tasks : attempt[i].at \in {"none", "done"}
    BY <1>1, <2>1 DEF CountsInv
  <2>3. RecordedTasks = SettledWell \cup SettledBadly /\ SettledWell \cap SettledBadly = {}
    BY <2>2 DEF RecordedTasks, Recorded, SettledWell, SettledBadly, IsSettled
  <2>4. /\ IsFiniteSet(SettledWell) /\ IsFiniteSet(SettledBadly)
        /\ Cardinality(SettledWell) \in Nat /\ Cardinality(SettledBadly) \in Nat
    BY <1>1, SettledIsFinite, FS_CardinalityType DEF Typed
  <2>5. Cardinality(RecordedTasks) = Cardinality(SettledWell) + Cardinality(SettledBadly)
    <3>1. Cardinality(SettledWell \cup SettledBadly)
            = Cardinality(SettledWell) + Cardinality(SettledBadly)
                 - Cardinality(SettledWell \cap SettledBadly)
      BY <2>4, FS_Union
    <3> QED
      BY <2>3, <2>4, <3>1, FS_EmptySet
  <2>6. Cardinality(InFile) \in Nat /\ missed \in [dropped: Nat, lost: Nat]
    BY <1>1, WriterFacts, RecordedIsFinite
  <2>7. Cardinality(InFile) + missed.dropped + missed.lost = counts.success + counts.fail
    BY <1>1, <2>1, <2>5, <2>6 DEF ResultsAddUp, CountsInv
  <2>8. \A i \in Tasks : file[i] <= 1
    BY <2>1 DEF OnceInFile
  <2> QED
    BY <2>7, <2>8 DEF InFile
<1>2. ASSUME Typed, TokenInv
      PROVE  /\ tokens # <<>> => tokens[1] = "token_id"
             /\ Cardinality({n \in DOMAIN tokens : tokens[n] = "token_id"}) <= tool.clients
  <2>1. Titles(tokens) \in Nat /\ Cardinality(Heralds) \in Nat /\ tool.clients \in Nat
    BY <1>2, TitlesAreCounted, HeraldsAreFinite, ToolFacts DEF Typed
  <2>2. Titles(tokens) <= tool.clients
    BY <1>2, <2>1 DEF TokenInv
  <2> QED
    BY <1>2, <2>2 DEF TokenInv, Titles
<1>3. Typed /\ CountsInv /\ WriterInv /\ TokenInv => FilesAgreeWithReport
  BY <1>1, <1>2 DEF FilesAgreeWithReport
<1> QED
  BY <1>3, TypedHolds, CountsHold, WriterHolds, TokensHold, PTL
=============================================================================
