--------------------------- MODULE RiskScan_proofs ---------------------------
(***************************************************************************)
(* Proofs about RiskScan, for any cluster, images, reports and bounds.     *)
(*                                                                         *)
(* The server keeps one map for all, unlocked. While nothing fails, the    *)
(* protocol of the client is what makes it safe: Before says that nobody   *)
(* looks at the map until the last resource is there, and After that from  *)
(* then on there is one analysis, whose progress is what the map says; or  *)
(* it met an image not scanned yet and is gone, with all there was.        *)
(***************************************************************************)
EXTENDS RiskScan, FiniteSetTheorems, TLAPS

Analysing(a) == analysis[a].pc # "none"
Over == \A a \in Analyses : ~Analysing(a)

\* An analysis that fetches began at some map.
Based == \A a \in Analyses : analysis[a].pc = "fetch" => analysis[a].of # 0

\* What the analysis adds for a risk, once all resources are there.
Weight(x) ==
  IF x.vuln \in Found[x.image] /\ x.kind \in Eval(x.pod, x.vuln, Resources)
  THEN Containers[x.pod][x.image] ELSE 0

\* The current map holds what was posted: all but the resources `left`.
Holds(left) ==
  /\ maps[Current].items = Resources \ left
  /\ \A p \in Pods, i \in Images :
       maps[Current].related[p][i] = IF p \in left THEN 0 ELSE Containers[p][i]

Blank == \A x \in Risks : maps[Current].risks[x] = 0

\* Until the client has posted everything, the server does nothing else.
Before ==
  client \in {"start", "collect", "empty", "post"} =>
    /\ ~exiting /\ ~running /\ Over /\ exported = <<>> /\ ~panicked
    /\ server # "exited" /\ (client \in {"collect", "post"} => server = "up")
    /\ Holds(IF client = "post" THEN todo ELSE Resources) /\ Blank

\* The one analysis and its progress.
Stage(a) ==
  /\ \A b \in Analyses : Analysing(b) => b = a
  /\ Holds({})
  /\ running <=> analysis[a].pc # "spawned"
  /\ analysis[a].pc \in {"spawned", "fetch"} => exported = <<>>
  /\ analysis[a].pc = "spawned" => Blank
  /\ analysis[a].pc = "fetch" =>
       /\ analysis[a].of = Current
       /\ \A x \in Risks : maps[Current].risks[x] =
            IF x.image \in analysis[a].left THEN 0 ELSE Weight(x)
  /\ analysis[a].pc = "finish" => Len(exported) = 1

\* Then the client waits for it, unless its first poll comes too early.
After ==
  client \in {"poll", "exit", "done"} =>
    /\ (server = "down" => panicked) /\ (server = "exited" => client = "done" /\ Over)
    /\ exiting => client = "done"
    /\ panicked => Over /\ ~running /\ exported = <<>>
    /\ \A a \in Analyses : Analysing(a) => Stage(a)
    /\ Over /\ server = "up" /\ ~panicked => ~running /\ Len(exported) = 1
    /\ client # "poll" /\ ~early => Over /\ (panicked \/ Len(exported) = 1)

Exact ==
  \A n \in 1 .. Len(exported) : \A x \in Risks :
    Labels[x.pod] # {} => exported[n][x] = Expected(x)

Phase == Before /\ After /\ Exact

TypeInv == TypeOK /\ Based
IInv == TypeInv /\ (Undisturbed => Phase)

----------------------------------------------------------------------------
(* Facts about the maps. *)

\* One element of a sequence is replaced, or one more put at its end.
LEMMA SeqFacts ==
  ASSUME NEW S, NEW s \in Seq(S), NEW m \in S
  PROVE  /\ Len(s) \in Nat /\ (s # <<>> => Len(s) # 0 /\ s[Len(s)] \in S)
         /\ \A i \in 1 .. Len(s) : s[i] \in S
         /\ LET t == [s EXCEPT ![Len(s)] = m] IN
            t \in Seq(S) /\ Len(t) = Len(s) /\ (s # <<>> => t # <<>> /\ t[Len(s)] = m)
         /\ LET t == Append(s, m) IN
            /\ t \in Seq(S) /\ t # <<>> /\ Len(t) = Len(s) + 1 /\ t[Len(s) + 1] = m
            /\ \A i \in 1 .. Len(s) : t[i] = s[i]
<1>1. Len(s) \in Nat /\ \A i \in 1 .. Len(s) : s[i] \in S OBVIOUS
<1>2. ASSUME s # <<>> PROVE Len(s) # 0 /\ s[Len(s)] \in S BY <1>2
<1> DEFINE t == [s EXCEPT ![Len(s)] = m]
<1>3. t \in Seq(S) /\ Len(t) = Len(s) /\ (s # <<>> => t[Len(s)] = m)
  <2>1. DOMAIN s = 1 .. Len(s) OBVIOUS
  <2>2. DOMAIN t = 1 .. Len(s) BY <2>1
  <2>3. \A i \in 1 .. Len(s) : t[i] = (IF i = Len(s) THEN m ELSE s[i]) BY <2>1
  <2>4. t \in [1 .. Len(s) -> S] BY <1>1, <2>1, <2>2, <2>3
  <2>5. t \in Seq(S) BY <1>1, <2>4
  <2>6. Len(t) = Len(s) BY <1>1, <2>2, <2>5
  <2> QED BY <1>2, <2>3, <2>5, <2>6
<1>4. s # <<>> => t # <<>> BY <1>2, <1>3
<1> QED BY <1>1, <1>2, <1>3, <1>4

\* An empty map is a map.
LEMMA NoMapsFacts ==
  /\ NoMaps \in Maps /\ NoMaps.items = {}
  /\ \A p \in Pods, i \in Images : NoMaps.related[p][i] = 0
  /\ \A x \in Risks : NoMaps.risks[x] = 0
  BY DEF NoMaps, Maps

\* The goroutines of a new server.
LEMMA QuietFacts ==
  ASSUME NEW n \in Nat
  PROVE  /\ \A a \in Analyses : Quiet[a] = NoAnalysis
         /\ Quiet \in [Analyses -> [pc : {"none", "spawned", "fetch", "finish"},
                                    of : 0 .. n, left : SUBSET Images]]
  BY DEF Quiet, NoAnalysis

\* What AddRisks changes.
LEMMA AddRisksFacts ==
  ASSUME NEW m \in Maps, NEW of \in Maps, NEW i \in Images
  PROVE  /\ AddRisks(m, of, i) \in Maps
         /\ AddRisks(m, of, i).items = m.items /\ AddRisks(m, of, i).related = m.related
         /\ \A x \in Risks : AddRisks(m, of, i).risks[x] = m.risks[x] +
              IF /\ x.image = i /\ x.vuln \in Found[i] /\ x.pod \in m.items
                 /\ x.kind \in Eval(x.pod, x.vuln, m.items)
              THEN of.related[x.pod][i] ELSE 0
<1> DEFINE new == [x \in Risks |-> m.risks[x] +
              IF /\ x.image = i /\ x.vuln \in Found[i] /\ x.pod \in m.items
                 /\ x.kind \in Eval(x.pod, x.vuln, m.items)
              THEN of.related[x.pod][i] ELSE 0]
<1>1. AddRisks(m, of, i) = [m EXCEPT !.risks = new] BY DEF AddRisks
<1>2. m.risks \in [Risks -> Nat] /\ of.related \in [Pods -> [Images -> Nat]] BY DEF Maps
<1>3. new \in [Risks -> Nat]
  <2>1. ASSUME NEW x \in Risks
        PROVE m.risks[x] \in Nat /\ of.related[x.pod][i] \in Nat
    <3>1. x.pod \in Pods BY DEF Risks
    <3> QED BY <1>2, <3>1
  <2> QED BY <2>1
<1>4. \A x \in Risks : new[x] = m.risks[x] +
              IF /\ x.image = i /\ x.vuln \in Found[i] /\ x.pod \in m.items
                 /\ x.kind \in Eval(x.pod, x.vuln, m.items)
              THEN of.related[x.pod][i] ELSE 0
  OBVIOUS
<1> HIDE DEF new
<1>5. [m EXCEPT !.risks = new] \in Maps BY <1>3 DEF Maps
<1>6. /\ [m EXCEPT !.risks = new].risks = new /\ [m EXCEPT !.risks = new].items = m.items
      /\ [m EXCEPT !.risks = new].related = m.related
  BY DEF Maps
<1> QED BY <1>1, <1>4, <1>5, <1>6

\* What a posted resource adds to the current map.
Stored(m, r) ==
  [m EXCEPT !.related = [p \in Pods |-> IF p # r THEN m.related[p]
                           ELSE [i \in Images |-> m.related[p][i] + GetImages(r, i)]],
            !.items = @ \cup {r}]

LEMMA StoredFacts ==
  ASSUME NEW m \in Maps, NEW r \in Resources
  PROVE  /\ Stored(m, r) \in Maps
         /\ Stored(m, r).items = m.items \cup {r} /\ Stored(m, r).risks = m.risks
         /\ \A p \in Pods, i \in Images : Stored(m, r).related[p][i] =
              IF p = r THEN m.related[p][i] + Containers[p][i] ELSE m.related[p][i]
<1> DEFINE new == [p \in Pods |-> IF p # r THEN m.related[p]
                     ELSE [i \in Images |-> m.related[p][i] + GetImages(r, i)]]
<1>1. Stored(m, r) = [m EXCEPT !.related = new, !.items = @ \cup {r}] BY DEF Stored
<1>2. m.related \in [Pods -> [Images -> Nat]] BY DEF Maps
<1>3. \A i \in Images : GetImages(r, i) \in Nat
  BY ConstantsAssumption DEF GetImages
<1>4. new \in [Pods -> [Images -> Nat]] BY <1>2, <1>3
<1>5. \A p \in Pods, i \in Images : new[p][i] =
        IF p = r THEN m.related[p][i] + Containers[p][i] ELSE m.related[p][i]
  BY DEF GetImages
<1> HIDE DEF new
<1>6. [m EXCEPT !.related = new, !.items = @ \cup {r}] \in Maps BY <1>4 DEF Maps
<1>7. LET t == [m EXCEPT !.related = new, !.items = @ \cup {r}] IN
      t.related = new /\ t.items = m.items \cup {r} /\ t.risks = m.risks
  BY DEF Maps
<1> QED BY <1>1, <1>5, <1>6, <1>7

\* Store replaces the current map, and what an analysis still iterates over may grow.
LEMMA StoreFacts ==
  ASSUME TypeOK, NEW r \in Resources, Store(r)
  PROVE  /\ maps' = [maps EXCEPT ![Current] = Stored(maps[Current], r)]
         /\ analysis' \in [Analyses -> [pc : {"none", "spawned", "fetch", "finish"},
                                        of : 0 .. Current, left : SUBSET Images]]
         /\ \A a \in Analyses : /\ analysis'[a].pc = analysis[a].pc
                                /\ analysis'[a].of = analysis[a].of
<1>1. maps' = [maps EXCEPT ![Current] = Stored(maps[Current], r)] BY DEF Store, Stored
<1>2. PICK met \in SUBSET Images :
        analysis' = [a \in Analyses |->
          IF analysis[a].pc = "fetch" /\ analysis[a].of = Current
          THEN [analysis[a] EXCEPT !.left = @ \cup met] ELSE analysis[a]]
  <2> DEFINE stored == [maps[Current] EXCEPT !.related = [p \in Pods |->
                 IF p # r THEN maps[Current].related[p]
                 ELSE [i \in Images |-> maps[Current].related[p][i] + GetImages(r, i)]],
                 !.items = @ \cup {r}]
  <2>1. PICK met \in SUBSET (Keys(stored) \ Keys(maps[Current])) :
          analysis' = [a \in Analyses |->
            IF analysis[a].pc = "fetch" /\ analysis[a].of = Current
            THEN [analysis[a] EXCEPT !.left = @ \cup met] ELSE analysis[a]]
    BY DEF Store
  <2>2. Keys(stored) \subseteq Images BY DEF Keys
  <2> HIDE DEF stored
  <2>3. met \in SUBSET Images BY <2>2
  <2> QED BY <2>1, <2>3
<1> DEFINE L == [pc : {"none", "spawned", "fetch", "finish"}, of : 0 .. Current, left : SUBSET Images]
<1>3. analysis \in [Analyses -> L] BY DEF TypeOK
<1>4. ASSUME NEW l \in L
      PROVE  LET k == [l EXCEPT !.left = @ \cup met] IN k \in L /\ k.pc = l.pc /\ k.of = l.of
  <2> DEFINE more == l.left \cup met
  <2>1. more \subseteq Images OBVIOUS
  <2>2. [l EXCEPT !.left = @ \cup met] = [l EXCEPT !.left = more] OBVIOUS
  <2> HIDE DEF more
  <2> QED BY <2>1, <2>2
<1> HIDE DEF L
<1>5. analysis' \in [Analyses -> L]
      /\ \A a \in Analyses : analysis'[a].pc = analysis[a].pc /\ analysis'[a].of = analysis[a].of
  BY <1>2, <1>3, <1>4
<1> QED BY <1>1, <1>5 DEF L

----------------------------------------------------------------------------
(* Type correctness. *)

\* A process that ends leaves everything well-typed.
LEMMA GoneFacts ==
  ASSUME NEW state \in {"down", "exited"}, Gone(state)
  PROVE  /\ server' = state /\ exiting' = FALSE /\ running' = FALSE
         /\ maps' \in Seq(Maps) /\ maps' # <<>>
         /\ analysis' \in [Analyses -> [pc : {"none", "spawned", "fetch", "finish"},
                                        of : 0 .. Len(maps'), left : SUBSET Images]]
         /\ \A a \in Analyses : analysis'[a].pc = "none"
<1>1. maps' = <<NoMaps>> /\ analysis' = Quiet BY DEF Gone
<1>2. maps' \in Seq(Maps) /\ maps' # <<>> /\ Len(maps') = 1 BY <1>1, NoMapsFacts
<1> QED BY <1>1, <1>2, QuietFacts DEF Gone, NoAnalysis

\* The client's steps keep the types.
LEMMA ClientType == TypeInv /\ (ClientStep \/ ClientCrash) => TypeInv'
<1> SUFFICES ASSUME TypeInv, ClientStep \/ ClientCrash PROVE TypeInv' OBVIOUS
<1>1. TypeOK /\ Based BY DEF TypeInv
<1>2. CASE WaitForServer \/ Collect \/ Poll \/ SendExit \/ ClientCrash
  <2>1. UNCHANGED <<server, running, maps, analysis, exported>>
    BY <1>2 DEF WaitForServer, Collect, Poll, SendExit, ClientCrash, serverVars
  <2>2. client' \in ClientStates /\ todo' \subseteq Resources /\ exiting' \in BOOLEAN
    BY <1>1, <1>2 DEF WaitForServer, Collect, Poll, SendExit, ClientCrash, serverVars,
                      ClientStates, Resources, TypeOK
  <2>3. early' \in BOOLEAN /\ panicked' \in BOOLEAN
    BY <1>1, <1>2 DEF WaitForServer, Collect, Poll, SendExit, ClientCrash, historyVars, TypeOK
  <2>4. faults' \in Nat /\ crashes' \in Nat /\ scanned' \subseteq Images
    BY <1>1, <1>2 DEF WaitForServer, Collect, Poll, SendExit, ClientCrash, envVars, Fault, TypeOK
  <2> QED BY <1>1, <2>1, <2>2, <2>3, <2>4 DEF TypeInv, TypeOK, Based, Current
<1>3. CASE PostAnalyze
  <2>1. /\ client' = "poll"
        /\ UNCHANGED <<todo, server, exiting, running, maps, exported, historyVars, envVars>>
    BY <1>3 DEF PostAnalyze
  <2>2. \/ UNCHANGED analysis
        \/ \E a \in Analyses : analysis' = [analysis EXCEPT ![a].pc = "spawned"]
    BY <1>3 DEF PostAnalyze
  <2>3. /\ analysis' \in [Analyses -> [pc : {"none", "spawned", "fetch", "finish"},
                                       of : 0 .. Current, left : SUBSET Images]]
        /\ \A a \in Analyses : analysis'[a].pc = "fetch" =>
             analysis[a].pc = "fetch" /\ analysis'[a].of = analysis[a].of
    BY <1>1, <2>2 DEF TypeOK
  <2> QED BY <1>1, <2>1, <2>3 DEF TypeInv, TypeOK, Based, Current, ClientStates, envVars, historyVars
<1>4. ASSUME NEW r \in Resources, PostResource(r) PROVE TypeInv'
  <2>1. /\ todo' \subseteq Resources
        /\ UNCHANGED <<client, server, exiting, running, exported, historyVars, envVars>>
    BY <1>1, <1>4 DEF PostResource, TypeOK
  <2>2. CASE Store(r)
    <3>1. maps[Current] \in Maps /\ Stored(maps[Current], r) \in Maps
      BY <1>1, SeqFacts, NoMapsFacts, StoredFacts DEF TypeOK, Current
    <3>2. maps' \in Seq(Maps) /\ maps' # <<>> /\ Current' = Current
      BY <1>1, <2>2, <3>1, SeqFacts, StoreFacts DEF TypeOK, Current
    <3> QED BY <1>1, <2>1, <2>2, <3>2, StoreFacts DEF TypeInv, TypeOK, Based, envVars, historyVars
  <2>3. CASE UNCHANGED <<maps, analysis>>
    BY <1>1, <2>1, <2>3 DEF TypeInv, TypeOK, Based, Current, envVars, historyVars
  <2> QED BY <1>4, <2>2, <2>3 DEF PostResource
<1> QED BY <1>2, <1>3, <1>4 DEF ClientStep

\* The analyses' steps keep the types.
LEMMA AnalysisType == ASSUME TypeInv, NEW a \in Analyses, AnalysisStep(a) PROVE TypeInv'
<1> DEFINE L(n) == [pc : {"none", "spawned", "fetch", "finish"}, of : 0 .. n, left : SUBSET Images]
<1>1. TypeOK /\ Based BY DEF TypeInv
<1>2. Current \in Nat /\ Current # 0 /\ maps[Current] \in Maps
  BY <1>1, SeqFacts, NoMapsFacts DEF TypeOK, Current
<1>3. analysis \in [Analyses -> L(Current)] BY <1>1 DEF TypeOK
<1>4. CASE Begin(a)
  <2> DEFINE new == [pc |-> "fetch", of |-> Current, left |-> Keys(maps[Current])]
  <2>1. /\ analysis' = [analysis EXCEPT ![a] = new] /\ running' = TRUE
        /\ UNCHANGED <<clientVars, server, exiting, maps, exported, historyVars, envVars>>
    BY <1>4 DEF Begin
  <2>2. new \in L(Current) BY <1>2 DEF Keys
  <2>3. new.of = Current OBVIOUS
  <2> HIDE DEF L, new
  <2>4. analysis' \in [Analyses -> L(Current)]
        /\ \A b \in Analyses : analysis'[b] = IF b = a THEN new ELSE analysis[b]
    BY <1>3, <2>1, <2>2
  <2> QED BY <1>1, <1>2, <2>1, <2>3, <2>4 DEF TypeInv, TypeOK, Based, Current, L, clientVars, envVars, historyVars
<1>5. ASSUME NEW i \in Images, Fetch(a, i), FetchReport(a, i) PROVE TypeInv'
  <2>1. analysis[a].of \in 1 .. Len(maps)
    BY <1>1, <1>2, <1>3, <1>5 DEF Fetch, Based, Current
  <2>2. maps[analysis[a].of] \in Maps BY <1>1, <2>1 DEF TypeOK
  <2>3. AddRisks(maps[Current], maps[analysis[a].of], i) \in Maps
    BY <1>2, <2>2, AddRisksFacts
  <2>4. \/ UNCHANGED maps
        \/ maps' = [maps EXCEPT ![Current] = AddRisks(maps[Current], maps[analysis[a].of], i)]
    BY <1>5 DEF FetchReport
  <2>5. maps' \in Seq(Maps) /\ maps' # <<>> /\ Current' = Current
    BY <1>1, <2>3, <2>4, SeqFacts DEF TypeOK, Current
  <2>6. /\ analysis' = [analysis EXCEPT ![a].left = @ \ {i}]
        /\ UNCHANGED <<clientVars, server, exiting, running, exported, historyVars, scanned, crashes>>
        /\ faults' \in Nat
    BY <1>1, <1>5 DEF FetchReport, Fault, TypeOK
  <2>7. analysis' \in [Analyses -> L(Current)]
        /\ \A b \in Analyses : analysis'[b].of = analysis[b].of /\ analysis'[b].pc = analysis[b].pc
    BY <1>3, <2>6
  <2> QED BY <1>1, <2>5, <2>6, <2>7 DEF TypeInv, TypeOK, Based, clientVars, historyVars
<1>8. ASSUME NEW i \in Images, FetchNil(i) PROVE TypeInv'
  <2>1. Gone("down") /\ panicked' = TRUE /\ UNCHANGED <<clientVars, exported, early, envVars>>
    BY <1>8 DEF FetchNil
  <2> QED BY <1>1, <2>1, GoneFacts DEF TypeInv, TypeOK, Based, Current, clientVars, envVars
<1>6. CASE Export(a)
  <2>1. /\ analysis' = [analysis EXCEPT ![a].pc = "finish"]
        /\ UNCHANGED <<clientVars, server, exiting, running, maps, historyVars, scanned, crashes>>
        /\ faults' \in Nat
        /\ exported' = Append(exported, maps[Current].risks) \/ UNCHANGED exported
    BY <1>1, <1>6 DEF Export, Fault, TypeOK
  <2>2. maps[Current].risks \in [Risks -> Nat] BY <1>2 DEF Maps
  <2>3. exported' \in Seq([Risks -> Nat])
    <3> DEFINE R == [Risks -> Nat]
    <3>1. exported \in Seq(R) /\ maps[Current].risks \in R BY <1>1, <2>2 DEF TypeOK
    <3> HIDE DEF R
    <3>2. exported' \in Seq(R) BY <2>1, <3>1, SeqFacts
    <3> QED BY <3>2 DEF R
  <2>4. analysis' \in [Analyses -> L(Current)]
        /\ \A b \in Analyses : analysis'[b].pc = "fetch" => analysis'[b] = analysis[b]
    BY <1>3, <2>1
  <2> QED BY <1>1, <2>1, <2>3, <2>4 DEF TypeInv, TypeOK, Based, Current, clientVars, historyVars
<1>7. CASE Finish(a)
  <2>1. /\ analysis' = [analysis EXCEPT ![a] = NoAnalysis] /\ running' = FALSE
        /\ maps' = Append(maps, NoMaps)
        /\ UNCHANGED <<clientVars, server, exiting, exported, historyVars, envVars>>
    BY <1>7 DEF Finish
  <2>2. maps' \in Seq(Maps) /\ maps' # <<>> /\ Current' = Current + 1
    BY <1>1, <2>1, SeqFacts, NoMapsFacts DEF TypeOK, Current
  <2>3. NoAnalysis \in L(Current + 1) /\ L(Current) \subseteq L(Current + 1)
        /\ NoAnalysis.pc = "none"
    BY <1>2 DEF NoAnalysis
  <2> HIDE DEF L
  <2>4. analysis' \in [Analyses -> L(Current')]
        /\ \A b \in Analyses : analysis'[b] = IF b = a THEN NoAnalysis ELSE analysis[b]
    BY <1>3, <2>1, <2>2, <2>3
  <2> QED BY <1>1, <2>1, <2>2, <2>3, <2>4 DEF TypeInv, TypeOK, Based, L, clientVars, envVars, historyVars
<1> QED BY <1>4, <1>5, <1>6, <1>7, <1>8 DEF AnalysisStep, Fetch

\* Every variable keeps its type.
LEMMA TypeStep == TypeInv /\ [Next]_vars => TypeInv'
<1> SUFFICES ASSUME TypeInv, [Next]_vars PROVE TypeInv' OBVIOUS
<1>1. TypeOK /\ Based BY DEF TypeInv
<1>2. CASE ServerStart
  BY <1>1, <1>2 DEF ServerStart, TypeInv, TypeOK, Based, Current, clientVars, envVars, historyVars
<1>3. CASE ServerExit \/ ServerCrash \/ Fatal
  <2>1. PICK state \in {"down", "exited"} : Gone(state)
    BY <1>3 DEF ServerExit, ServerCrash, Fatal
  <2>2. UNCHANGED <<clientVars, exported, historyVars, scanned, faults>> /\ crashes' \in Nat
    BY <1>1, <1>3 DEF ServerExit, ServerCrash, Fatal, envVars, TypeOK
  <2> QED BY <1>1, <2>1, <2>2, GoneFacts DEF TypeInv, TypeOK, Based, Current, clientVars, historyVars
<1>4. CASE UNCHANGED vars
  BY <1>1, <1>4 DEF vars, TypeInv, TypeOK, Based, Current
<1>5. ASSUME NEW i \in Images, HarborScans(i) PROVE TypeInv'
  BY <1>1, <1>5 DEF HarborScans, TypeInv, TypeOK, Based, Current, clientVars, serverVars, historyVars
<1> QED BY <1>2, <1>3, <1>4, <1>5, ClientType, AnalysisType DEF Next

----------------------------------------------------------------------------
(* What the map says of the analysis. *)

\* What is counted so far shows no more than what a call that fails leaves.
LEMMA Calm ==
  ASSUME TypeOK, [Next]_vars, Undisturbed'
  PROVE  Undisturbed /\ ~Fault /\ ~ServerCrash /\ ~ClientCrash
<1>1. faults \in Nat /\ crashes \in Nat /\ faults' = 0 /\ crashes' = 0
  BY DEF TypeOK, Undisturbed
<1>2. ~Fault BY <1>1 DEF Fault
<1>3. ~ServerCrash /\ ~ClientCrash BY <1>1 DEF ServerCrash, ClientCrash
<1>4. UNCHANGED <<faults, crashes>>
  BY <1>2, <1>3 DEF Next, vars, envVars, ClientStep, AnalysisStep, WaitForServer, Collect, PostResource,
         PostAnalyze, Poll, SendExit, Begin, Fetch, FetchReport, FetchNil,
         Export, Finish, ServerStart, ServerExit, Fatal, HarborScans
<1> QED BY <1>1, <1>2, <1>3, <1>4 DEF Undisturbed

\* For a labelled pod, what is counted is what should be.
LEMMA WeightFacts ==
  ASSUME NEW x \in Risks
  PROVE  /\ x.pod \in Pods /\ x.image \in Images
         /\ Weight(x) \in Nat
         /\ Containers[x.pod][x.image] = 0 => Weight(x) = 0
         /\ Labels[x.pod] # {} => Weight(x) = Expected(x)
<1>1. x.pod \in Pods /\ x.image \in Images /\ x.kind \in Kinds BY DEF Risks
<1>2. Containers[x.pod][x.image] \in Nat BY <1>1, ConstantsAssumption
<1>3. ASSUME Labels[x.pod] # {} PROVE Weight(x) = Expected(x)
  <2>1. GetServices(Labels[x.pod], Resources) # {} <=> Exposed(x.pod)
    BY <1>3 DEF GetServices, Exposed, Resources
  <2>2. x.kind \in Eval(x.pod, x.vuln, Resources) <=>
          CASE x.kind = "exposure"  -> x.vuln \in Network /\ Exposed(x.pod)
            [] x.kind = "privilege" -> x.vuln \in LowPrivilege /\ Exposed(x.pod)
            [] x.kind = "serious"   -> x.vuln \in Serious
    BY <1>1, <2>1 DEF Eval, Kinds
  <2> QED BY <2>2 DEF Weight, Expected
<1> QED BY <1>1, <1>2, <1>3 DEF Weight

\* The current map stays the same.
LEMMA MapsStay ==
  ASSUME UNCHANGED maps
  PROVE  Current' = Current /\ (Blank' <=> Blank) /\ \A left : Holds(left)' <=> Holds(left)
  BY DEF Current, Blank, Holds

\* An analysis that others do not touch.
LEMMA StageStays ==
  ASSUME NEW a \in Analyses, Stage(a), UNCHANGED <<maps, analysis, running, exported>>
  PROVE  Stage(a)'
  BY MapsStay DEF Stage, Analysing

\* The client's steps.
LEMMA ClientPhase ==
  ASSUME TypeInv, Phase, ~Fault, ClientStep
  PROVE  Phase'
<1>1. TypeOK BY DEF TypeInv
<1>2. CASE WaitForServer
  <2>1. client = "start" /\ server = "up" /\ client' = "collect"
        /\ UNCHANGED <<todo, serverVars, exported, historyVars, envVars>>
    BY <1>2 DEF WaitForServer
  <2>2. Before'
    BY <2>1, MapsStay DEF Phase, Before, Over, Analysing, serverVars, historyVars
  <2> QED BY <2>1, <2>2 DEF Phase, After, Exact
<1>3. CASE Collect
  <2>1. client = "collect" /\ UNCHANGED <<serverVars, exported, panicked>>
        /\ \/ client' = "post" /\ todo' = Resources
           \/ client' = "empty"
    BY <1>3 DEF Collect, historyVars
  <2>2. Before'
    BY <2>1, MapsStay DEF Phase, Before, Over, Analysing, serverVars
  <2> QED BY <2>1, <2>2 DEF Phase, After, Exact
<1>4. ASSUME NEW r \in Resources, PostResource(r) PROVE Phase'
  <2>1. /\ client = "post" /\ r \in todo /\ todo' = todo \ {r}
        /\ UNCHANGED <<client, server, exiting, running, exported, historyVars, envVars>>
    BY <1>4 DEF PostResource
  <2>2. server = "up" /\ Holds(todo) /\ Blank /\ Over BY <2>1 DEF Phase, Before
  <2>3. Store(r) BY <1>4, <2>2 DEF PostResource
  <2>4. maps[Current] \in Maps BY <1>1, SeqFacts, NoMapsFacts DEF TypeOK, Current
  <2>5. Current' = Current /\ maps'[Current] = Stored(maps[Current], r)
    BY <1>1, <2>3, <2>4, StoreFacts, StoredFacts, SeqFacts DEF TypeOK, Current
  <2>6. Holds(todo)'
    <3>1. maps'[Current].items = Resources \ (todo \ {r})
      <4>1. maps'[Current].items = (Resources \ todo) \cup {r}
        BY <2>2, <2>4, <2>5, StoredFacts DEF Holds
      <4> QED BY <1>4, <4>1
    <3>2. ASSUME NEW p \in Pods, NEW i \in Images
          PROVE  maps'[Current].related[p][i] = IF p \in todo \ {r} THEN 0 ELSE Containers[p][i]
      <4>1. maps[Current].related[p][i] = IF p \in todo THEN 0 ELSE Containers[p][i]
        BY <2>2 DEF Holds
      <4>2. Containers[p][i] \in Nat BY ConstantsAssumption
      <4> QED BY <2>1, <2>4, <2>5, <4>1, <4>2, StoredFacts
    <3> QED BY <2>1, <2>5, <3>1, <3>2 DEF Holds
  <2>7. Blank' BY <2>2, <2>4, <2>5, StoredFacts DEF Blank
  <2>8. Over' BY <1>1, <2>2, <2>3, StoreFacts DEF Over, Analysing
  <2>9. Before' BY <2>1, <2>6, <2>7, <2>8 DEF Phase, Before, historyVars
  <2> QED BY <2>1, <2>9 DEF Phase, After, Exact
<1>5. CASE PostAnalyze
  <2>1. /\ client = "post" /\ todo = {} /\ client' = "poll"
        /\ UNCHANGED <<todo, server, exiting, running, maps, exported, historyVars, envVars>>
    BY <1>5 DEF PostAnalyze
  <2>2. /\ server = "up" /\ ~exiting /\ ~running /\ Over /\ exported = <<>>
        /\ Holds({}) /\ Blank /\ ~panicked
    BY <2>1 DEF Phase, Before
  <2>3. PICK a \in Analyses : analysis' = [analysis EXCEPT ![a].pc = "spawned"]
    BY <1>5, <2>2 DEF PostAnalyze
  <2>4. \A b \in Analyses : analysis'[b].pc = IF b = a THEN "spawned" ELSE analysis[b].pc
    BY <1>1, <2>3 DEF TypeOK
  <2>5. \A b \in Analyses : Analysing(b)' <=> b = a BY <2>2, <2>4 DEF Over, Analysing
  <2>6. Stage(a)' BY <2>1, <2>2, <2>4, <2>5, MapsStay DEF Stage
  <2>7. After' BY <2>1, <2>2, <2>5, <2>6 DEF After, Over, historyVars
  <2> QED BY <2>1, <2>7 DEF Phase, Before, Exact
<1>6. CASE Poll
  <2>1. /\ client = "poll" /\ ~(server = "up" => running) /\ client' = "exit"
        /\ early' = (early \/ \E a \in Analyses : analysis[a].pc = "spawned")
        /\ UNCHANGED <<todo, serverVars, exported, panicked, envVars>>
    BY <1>6 DEF Poll, IsAnalyzeRunning
  <2>2. \A a \in Analyses : Analysing(a)' <=> Analysing(a) BY <2>1 DEF serverVars, Analysing
  <2>3. \A a \in Analyses : Analysing(a) => Stage(a) /\ analysis[a].pc = "spawned" /\ Stage(a)'
    BY <2>1, StageStays DEF Phase, After, Stage, serverVars
  <2>4. ~early' => Over /\ (panicked \/ Len(exported) = 1) BY <2>1, <2>3 DEF Phase, After, Over
  <2>5. After' BY <2>1, <2>2, <2>3, <2>4 DEF Phase, After, Over, serverVars
  <2> QED BY <2>1, <2>5 DEF Phase, Before, Exact
<1>7. CASE SendExit
  <2>1. /\ client = "exit" /\ client' = "done"
        /\ UNCHANGED <<todo, server, running, maps, analysis, exported, historyVars, envVars>>
    BY <1>7 DEF SendExit
  <2>2. \A a \in Analyses : Analysing(a)' <=> Analysing(a) BY <2>1 DEF Analysing
  <2>3. \A a \in Analyses : Stage(a) => Stage(a)' BY <2>1, StageStays
  <2>4. After' BY <2>1, <2>2, <2>3 DEF Phase, After, Over, historyVars
  <2> QED BY <2>1, <2>4 DEF Phase, Before, Exact
<1> QED BY <1>2, <1>3, <1>4, <1>5, <1>6, <1>7 DEF ClientStep


\* The server works, or is told to exit, only after the client has posted everything.
LEMMA Served ==
  ASSUME TypeOK, Phase, exiting \/ server = "exited" \/ \E a \in Analyses : Analysing(a)
  PROVE  client \in {"poll", "exit", "done"}
<1>1. client \in ClientStates BY DEF TypeOK
<1>2. client \notin {"start", "collect", "empty", "post"} BY DEF Phase, Before, Over
<1> QED BY <1>1, <1>2 DEF ClientStates

\* The steps of the analysis.
LEMMA AnalysisPhase ==
  ASSUME TypeInv, Phase, ~Fault, NEW a \in Analyses, AnalysisStep(a)
  PROVE  Phase'
<1>1. TypeOK BY DEF TypeInv
<1>2. maps[Current] \in Maps /\ Current \in Nat BY <1>1, SeqFacts, NoMapsFacts DEF TypeOK, Current
<1>3. Analysing(a)
  BY DEF AnalysisStep, Begin, Fetch, Export, Finish, Analysing
<1>4. client \in {"poll", "exit", "done"} BY <1>1, <1>3, Served
<1>5. /\ Stage(a) /\ server = "up" /\ (exiting => client = "done")
      /\ (client # "poll" => early) /\ ~panicked
  BY <1>1, <1>3, <1>4 DEF Phase, After, Over, TypeOK
<1>12. ASSUME NEW i \in Images, Fetch(a, i), FetchNil(i) PROVE Phase'
  <2>1. /\ Gone("down") /\ panicked' = TRUE /\ UNCHANGED <<clientVars, exported, early>>
        /\ analysis[a].pc = "fetch"
    BY <1>12 DEF FetchNil, Fetch
  <2>2. exported = <<>> BY <1>5, <2>1 DEF Stage
  <2>3. server' = "down" /\ ~exiting' /\ ~running' /\ Over'
    BY <2>1, GoneFacts DEF Over, Analysing
  <2>4. \A b \in Analyses : ~Analysing(b)' BY <2>3 DEF Over
  <2>5. After' BY <1>5, <2>1, <2>2, <2>3, <2>4 DEF After, clientVars
  <2>6. Before' BY <1>4, <2>1 DEF Before, clientVars
  <2> QED BY <2>1, <2>2, <2>5, <2>6 DEF Phase, Exact
<1> SUFFICES ASSUME \A i \in Images : ~(Fetch(a, i) /\ FetchNil(i)) PROVE Phase' BY <1>12
<1>6. UNCHANGED <<clientVars, server, exiting, early, panicked>>
  BY DEF AnalysisStep, Begin, Fetch, FetchReport, Export, Finish, historyVars
<1>7. ASSUME Stage(a)', Analysing(a)', Exact' PROVE Phase'
  <2>1. \A b \in Analyses : Analysing(b)' => Stage(b)' BY <1>7 DEF Stage
  <2> QED BY <1>4, <1>5, <1>6, <1>7, <2>1 DEF Phase, Before, After, Over, clientVars
<1>8. CASE Begin(a)
  <2> DEFINE new == [pc |-> "fetch", of |-> Current, left |-> Keys(maps[Current])]
  <2>1. /\ analysis[a].pc = "spawned" /\ running' = TRUE
        /\ analysis' = [analysis EXCEPT ![a] = new]
        /\ UNCHANGED <<maps, exported>>
    BY <1>8 DEF Begin
  <2>2. new.pc = "fetch" /\ new.of = Current /\ new.left = Keys(maps[Current]) OBVIOUS
  <2> HIDE DEF new
  <2>3. analysis'[a] = new /\ \A b \in Analyses \ {a} : analysis'[b] = analysis[b]
    BY <1>1, <2>1 DEF TypeOK
  <2>4. ASSUME NEW x \in Risks, x.image \notin Keys(maps[Current]) PROVE Weight(x) = 0
    <3>1. x.pod \in Pods /\ x.image \in Images BY WeightFacts
    <3>2. maps[Current].related[x.pod][x.image] = Containers[x.pod][x.image]
      BY <1>5, <3>1 DEF Stage, Holds
    <3>3. Containers[x.pod][x.image] \in Nat BY <3>1, ConstantsAssumption
    <3> QED BY <2>4, <3>1, <3>2, <3>3, WeightFacts DEF Keys
  <2>5. \A x \in Risks : maps[Current].risks[x] =
           IF x.image \in Keys(maps[Current]) THEN 0 ELSE Weight(x)
    BY <1>5, <2>1, <2>4 DEF Stage, Blank
  <2>6. \A b \in Analyses : Analysing(b)' => b = a BY <1>5, <2>3 DEF Stage, Analysing
  <2>7. Current' = Current /\ Holds({})' BY <1>5, <2>1, MapsStay DEF Stage
  <2>8. exported' = <<>> BY <1>5, <2>1 DEF Stage
  <2>9. Stage(a)' BY <2>1, <2>2, <2>3, <2>5, <2>6, <2>7, <2>8 DEF Stage
  <2> QED BY <1>7, <2>1, <2>2, <2>3, <2>9 DEF Analysing, Phase, Exact
<1>9. ASSUME NEW i \in Images, Fetch(a, i) PROVE Phase'
  <2>1. /\ analysis[a].pc = "fetch" /\ i \in analysis[a].left
        /\ analysis' = [analysis EXCEPT ![a].left = @ \ {i}]
        /\ maps' = [maps EXCEPT ![Current] = AddRisks(@, maps[analysis[a].of], i)]
        /\ UNCHANGED <<running, exported>>
    BY <1>9 DEF Fetch, FetchReport
  <2>2. /\ analysis'[a].pc = "fetch" /\ analysis'[a].of = analysis[a].of
        /\ analysis'[a].left = analysis[a].left \ {i}
        /\ \A b \in Analyses \ {a} : analysis'[b] = analysis[b]
    BY <1>1, <2>1 DEF TypeOK
  <2> DEFINE m == maps[Current]
             new == AddRisks(m, m, i)
  <2>3. analysis[a].of = Current /\ m.items = Resources
    BY <1>5, <2>1 DEF Stage, Holds
  <2>4. /\ new \in Maps /\ new.items = m.items /\ new.related = m.related
        /\ \A x \in Risks : new.risks[x] = m.risks[x] +
              IF /\ x.image = i /\ x.vuln \in Found[i] /\ x.pod \in m.items
                 /\ x.kind \in Eval(x.pod, x.vuln, m.items)
              THEN m.related[x.pod][i] ELSE 0
    BY <1>2, AddRisksFacts
  <2>5. maps' = [maps EXCEPT ![Current] = new] BY <2>1, <2>3
  <2>6. Current' = Current /\ maps'[Current] = new
    <3> HIDE DEF new
    <3> QED BY <1>1, <2>4, <2>5, SeqFacts DEF TypeOK, Current
  <2>7. Holds({})' BY <1>5, <2>4, <2>6 DEF Stage, Holds
  <2>8. ASSUME NEW x \in Risks
        PROVE  new.risks[x] = IF x.image \in analysis[a].left \ {i} THEN 0 ELSE Weight(x)
    <3> HIDE DEF new
    <3>1. x.pod \in Pods /\ x.pod \in Resources /\ Weight(x) \in Nat
      BY WeightFacts DEF Resources
    <3>2. m.risks[x] = IF x.image \in analysis[a].left THEN 0 ELSE Weight(x)
      BY <1>5, <2>1 DEF Stage
    <3>3. m.related[x.pod][i] = Containers[x.pod][i] BY <1>5, <3>1 DEF Stage, Holds
    <3>4. Containers[x.pod][i] \in Nat BY <3>1, ConstantsAssumption
    <3>5. CASE x.image = i BY <2>1, <2>3, <2>4, <3>1, <3>2, <3>3, <3>4, <3>5 DEF Weight
    <3>6. CASE x.image # i BY <2>4, <3>1, <3>2, <3>6
    <3> QED BY <3>5, <3>6
  <2> HIDE DEF new
  <2>9. \A b \in Analyses : Analysing(b)' => b = a BY <1>5, <2>2 DEF Stage, Analysing
  <2>10. running' /\ exported' = <<>> BY <1>5, <2>1 DEF Stage
  <2>11. Stage(a)' BY <2>2, <2>3, <2>6, <2>7, <2>8, <2>9, <2>10 DEF Stage
  <2> QED BY <1>7, <2>1, <2>2, <2>11 DEF Analysing, Phase, Exact
<1>10. CASE Export(a)
  <2>1. /\ analysis[a].pc = "fetch" /\ analysis[a].left = {}
        /\ analysis' = [analysis EXCEPT ![a].pc = "finish"]
        /\ exported' = Append(exported, maps[Current].risks)
        /\ UNCHANGED <<running, maps>>
    BY <1>10 DEF Export
  <2>2. /\ analysis'[a].pc = "finish" /\ \A b \in Analyses \ {a} : analysis'[b] = analysis[b]
    BY <1>1, <2>1 DEF TypeOK
  <2>3. exported = <<>> /\ running /\ \A x \in Risks : maps[Current].risks[x] = Weight(x)
    BY <1>5, <2>1 DEF Stage
  <2>4. Len(exported') = 1 /\ exported'[1] = maps[Current].risks BY <2>1, <2>3
  <2>5. Exact' BY <2>3, <2>4, WeightFacts DEF Exact
  <2>6. \A b \in Analyses : Analysing(b)' => b = a BY <1>5, <2>2 DEF Stage, Analysing
  <2>7. Holds({})' BY <1>5, <2>1, MapsStay DEF Stage
  <2>8. Stage(a)' BY <2>1, <2>2, <2>3, <2>4, <2>6, <2>7 DEF Stage
  <2> QED BY <1>7, <2>2, <2>5, <2>8 DEF Analysing
<1>11. CASE Finish(a)
  <2>1. /\ analysis[a].pc = "finish" /\ analysis' = [analysis EXCEPT ![a] = NoAnalysis]
        /\ running' = FALSE /\ UNCHANGED exported
    BY <1>11 DEF Finish
  <2>2. /\ analysis'[a].pc = "none" /\ \A b \in Analyses \ {a} : analysis'[b] = analysis[b]
    BY <1>1, <2>1 DEF TypeOK, NoAnalysis
  <2>3. Over' BY <1>5, <2>2 DEF Stage, Over, Analysing
  <2>4. Len(exported') = 1 BY <1>5, <2>1 DEF Stage
  <2>5. After' BY <1>4, <1>5, <1>6, <2>1, <2>3, <2>4 DEF After, Over, clientVars
  <2>6. Before' BY <1>4, <1>6 DEF Before, clientVars
  <2> QED BY <2>1, <2>5, <2>6 DEF Phase, Exact
<1> QED BY <1>8, <1>9, <1>10, <1>11 DEF AnalysisStep

\* The steps of the container the server runs in.
LEMMA ServerPhase ==
  ASSUME TypeInv, Phase, ServerStart \/ ServerExit \/ Fatal
  PROVE  Phase'
<1>1. TypeOK BY DEF TypeInv
<1>2. CASE ServerStart
  <2>1. /\ server = "down" /\ server' = "up"
        /\ UNCHANGED <<client, todo, exiting, running, maps, analysis, exported, early, panicked>>
    BY <1>2 DEF ServerStart, clientVars, historyVars
  <2>2. \A a \in Analyses : Analysing(a)' <=> Analysing(a) BY <2>1 DEF Analysing
  <2>3. Before' BY <2>1, <2>2, MapsStay DEF Phase, Before, Over
  <2>4. client \in {"poll", "exit", "done"} => panicked BY <2>1 DEF Phase, After
  <2>5. After' BY <2>1, <2>2, <2>4 DEF Phase, After, Over
  <2> QED BY <2>1, <2>3, <2>5 DEF Phase, Exact
<1>3. CASE ServerExit
  <2>1. exiting /\ Gone("exited") /\ UNCHANGED <<client, todo, exported, early, panicked>>
    BY <1>3 DEF ServerExit, clientVars, historyVars
  <2>2. client = "done" BY <1>1, <2>1, Served DEF Phase, After
  <2>3. server' = "exited" /\ ~exiting' /\ ~running' /\ Over' BY <2>1, GoneFacts DEF Over, Analysing
  <2>4. /\ ~early => panicked \/ Len(exported) = 1
        /\ panicked => exported = <<>>
    BY <2>2 DEF Phase, After
  <2> QED BY <2>1, <2>2, <2>3, <2>4 DEF Phase, Before, After, Exact, Over
<1>4. CASE Fatal
  <2> DEFINE fetching == {a \in Analyses : analysis[a].pc = "fetch"}
  <2>1. fetching # {} /\ (Cardinality(fetching) > 1 \/ (client = "post" /\ todo # {}))
    BY <1>4 DEF Fatal
  <2>2. PICK a \in Analyses : analysis[a].pc = "fetch" BY <2>1
  <2>3. client \in {"poll", "exit", "done"}
    BY <1>1, <2>2, Served DEF Analysing
  <2>4. fetching = {a} BY <2>2, <2>3 DEF Phase, After, Stage, Analysing
  <2>5. Cardinality(fetching) = 1 BY <2>4, FS_Singleton
  <2> QED BY <2>1, <2>3, <2>5
<1> QED BY <1>2, <1>3, <1>4

\* Harbor's scans are none of the analysis's business until it fetches.
LEMMA HarborPhase ==
  ASSUME Phase, NEW i \in Images, HarborScans(i)
  PROVE  Phase'
<1>1. UNCHANGED <<clientVars, serverVars, exported, historyVars>> BY DEF HarborScans
<1>2. Before'
  BY <1>1, MapsStay DEF Phase, Before, Over, Analysing, clientVars, serverVars, historyVars
<1>3. \A a \in Analyses : Stage(a) => Stage(a)' BY <1>1, StageStays DEF serverVars
<1>4. After'
  BY <1>1, <1>3 DEF Phase, After, Over, Analysing, clientVars, serverVars, historyVars
<1> QED BY <1>1, <1>2, <1>4 DEF Phase, Exact

----------------------------------------------------------------------------
(* The invariant, and what it implies. *)

LEMMA InitIInv == Init => IInv
<1> SUFFICES ASSUME Init PROVE IInv OBVIOUS
<1>1. /\ client = "start" /\ server = "down" /\ ~exiting /\ ~running
      /\ maps = <<NoMaps>> /\ analysis = Quiet /\ exported = <<>> /\ ~panicked
  BY DEF Init
<1>2. maps \in Seq(Maps) /\ maps # <<>> /\ Current = 1 /\ maps[Current] = NoMaps
  BY <1>1, NoMapsFacts DEF Current
<1>3. TypeOK
  <2>1. analysis \in [Analyses -> [pc : {"none", "spawned", "fetch", "finish"},
                                   of : 0 .. Current, left : SUBSET Images]]
    BY <1>1, <1>2, QuietFacts
  <2>2. exported \in Seq([Risks -> Nat]) BY <1>1
  <2> QED BY <1>1, <1>2, <2>1, <2>2 DEF Init, TypeOK, ClientStates
<1>4. \A a \in Analyses : analysis[a].pc = "none" BY <1>1, QuietFacts DEF NoAnalysis
<1>5. Holds(Resources) /\ Blank
  BY <1>2, NoMapsFacts DEF Holds, Blank, Resources
<1>6. Phase BY <1>1, <1>4, <1>5 DEF Phase, Before, After, Exact, Over, Analysing
<1> QED BY <1>3, <1>4, <1>6 DEF IInv, TypeInv, Based

LEMMA InvStep == IInv /\ [Next]_vars => IInv'
<1> SUFFICES ASSUME IInv, [Next]_vars PROVE IInv' OBVIOUS
<1>1. TypeInv /\ TypeInv' BY TypeStep DEF IInv
<1>2. ASSUME Undisturbed' PROVE Phase'
  <2>1. Undisturbed /\ ~Fault /\ ~ServerCrash /\ ~ClientCrash
    BY <1>1, <1>2, Calm DEF TypeInv
  <2>2. Phase BY <2>1 DEF IInv
  <2>3. CASE UNCHANGED vars
    <3>1. UNCHANGED <<maps, analysis, running, exported>> BY <2>3 DEF vars
    <3>2. Before' BY <2>2, <2>3, MapsStay DEF vars, Phase, Before, Over, Analysing
    <3>3. \A a \in Analyses : Stage(a) => Stage(a)' BY <3>1, StageStays
    <3>4. After' BY <2>2, <2>3, <3>3 DEF vars, Phase, After, Over, Analysing
    <3> QED BY <2>2, <2>3, <3>2, <3>4 DEF vars, Phase, Exact
  <2> QED BY <1>1, <2>1, <2>2, <2>3, ClientPhase, AnalysisPhase, ServerPhase,
            HarborPhase DEF Next
<1> QED BY <1>1, <1>2 DEF IInv

\* IInv is an inductive invariant.
LEMMA Invariance == Spec => []IInv
  BY InitIInv, InvStep, PTL DEF Spec

\* The types, for any cluster, reports and bounds: the two containers and the
\* goroutines of the server, whatever fails and whoever is killed.
THEOREM TypeCorrect == Spec => []TypeOK
<1>1. IInv => TypeOK BY DEF IInv, TypeInv
<1> QED BY <1>1, Invariance, PTL

\* If nothing fails, a report says of a labelled pod what the cluster makes true:
\* when the analysis begins all is posted, and it has met every image when it exports.
\* One that met an image Harbor had not scanned never gets there.
THEOREM ReportExact == Spec => []ReportIsExact
<1>1. IInv => ReportIsExact BY DEF IInv, Phase, Exact, ReportIsExact, Agreed
<1> QED BY <1>1, Invariance, PTL

\* If nothing fails and the client's poll does not overtake the goroutine, the server
\* is told to exit only after its one report, or, if it met an image that Harbor had
\* not scanned and died of it, with none.
THEOREM ExitSafe == Spec => []ExitLosesNothing
<1>1. IInv => ExitLosesNothing
  <2> SUFFICES ASSUME IInv, Undisturbed, ~early, exiting \/ server = "exited"
               PROVE  Len(exported) = IF panicked THEN 0 ELSE 1
    BY DEF ExitLosesNothing
  <2>1. Phase /\ TypeOK BY DEF IInv, TypeInv
  <2>2. client \in {"poll", "exit", "done"} BY <2>1, Served
  <2>3. panicked => exported = <<>> BY <2>1, <2>2 DEF Phase, After
  <2>4. ~panicked => Len(exported) = 1 BY <2>1, <2>2 DEF Phase, After, Over
  <2> QED BY <2>3, <2>4
<1> QED BY <1>1, Invariance, PTL

==============================================================================
