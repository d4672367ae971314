------------------------- MODULE LogCampaignsProofs -------------------------
(***************************************************************************)
(* Proofs about the server's log campaigns: what it holds of providers is  *)
(* held for known collectors, the campaigns of a workload end with it, and *)
(* the end of a collector reaches the server after its requests.           *)
(***************************************************************************)
EXTENDS LogCampaigns, SequenceFacts, FiniteSetTheorems

\* A function has finitely many values if it has finitely many arguments.
LEMMA FiniteRange ==
  ASSUME NEW S, NEW T, NEW f \in [S -> T], IsFiniteSet(S)
  PROVE  IsFiniteSet(Range(f))
<1>1. f \in Surjection(S, Range(f))
  BY DEF Surjection, Range
<1> QED
  BY <1>1, FS_Surjection

\* The elements of a finite set one after the other are a sequence.
LEMMA OrderedSet ==
  ASSUME NEW S, IsFiniteSet(S), NEW s \in Injection(1..Cardinality(S), S)
  PROVE  s \in Seq(S)
<1>1. Cardinality(S) \in Nat
  BY FS_CardinalityType
<1> QED
  BY <1>1 DEF Injection

\* The two kinds of request ids (request_id.rs) have nothing in common.
LEMMA KindsDiffer == CliRequestId \cap AgentRequestId = {}
<1> SUFFICES ASSUME NEW r \in CliRequestId, r \in AgentRequestId PROVE FALSE
  OBVIOUS
<1>1. DOMAIN r = {"cli", "id"}
  BY DEF CliRequestId
<1>2. DOMAIN r = {"agent", "workload", "id"}
  BY DEF AgentRequestId
<1> QED
  BY <1>1, <1>2

-----------------------------------------------------------------------------
(* What the operations of the store return *)

\* insert_log_campaign keeps what is there, and adds the request to the indexes of
\* its collector (log_campaign_store.rs).
LEMMA InsertStore ==
  ASSUME NEW s \in Store, NEW r \in RequestId, NEW P \in SUBSET Instance
  PROVE  LET t == insert_log_campaign(s, r, P)
         IN /\ t \in Store
            /\ \A a \in Agent, q \in RequestId :
                 q # r => t.log_providers_store[a][q] = s.log_providers_store[a][q]
            /\ \A a \in Agent, q \in RequestId : \A i \in t.log_providers_store[a][q] :
                 i \in s.log_providers_store[a][q] \/ i.agent = a
            /\ \A c \in Cli, q \in RequestId : q \in t.cli_log_request_id_store[c] <=>
                 q \in s.cli_log_request_id_store[c] \/ (q = r /\ r \in CliRequestId /\ c = r.cli)
            /\ \A a \in Agent, q \in RequestId : q \in t.agent_log_request_ids_store[a] <=>
                 q \in s.agent_log_request_ids_store[a] \/ (q = r /\ r \notin CliRequestId /\ a = r.agent)
            /\ \A n \in Name, q \in RequestId : q \in t.workload_name_request_id_store[n] <=>
                 q \in s.workload_name_request_id_store[n] \/ (q = r /\ r \notin CliRequestId /\ n = r.workload)
<1> DEFINE u == InsertRequest(s, r)
<1>1. /\ u \in Store
      /\ u.log_providers_store = s.log_providers_store
      /\ \A c \in Cli, q \in RequestId : q \in u.cli_log_request_id_store[c] <=>
           q \in s.cli_log_request_id_store[c] \/ (q = r /\ r \in CliRequestId /\ c = r.cli)
      /\ \A a \in Agent, q \in RequestId : q \in u.agent_log_request_ids_store[a] <=>
           q \in s.agent_log_request_ids_store[a] \/ (q = r /\ r \notin CliRequestId /\ a = r.agent)
      /\ \A n \in Name, q \in RequestId : q \in u.workload_name_request_id_store[n] <=>
           q \in s.workload_name_request_id_store[n] \/ (q = r /\ r \notin CliRequestId /\ n = r.workload)
  <2>1. CASE r \in CliRequestId
    <3>1. r.cli \in Cli
      BY <2>1 DEF CliRequestId
    <3> DEFINE C == [s.cli_log_request_id_store EXCEPT ![r.cli] = @ \cup {r}]
    <3>2. u = [s EXCEPT !.cli_log_request_id_store = C]
      BY <2>1 DEF InsertRequest
    <3>3. C \in [Cli -> SUBSET CliRequestId]
      BY <2>1, <3>1 DEF Store
    <3>4. \A c \in Cli : C[c] = IF c = r.cli THEN s.cli_log_request_id_store[c] \cup {r}
                                ELSE s.cli_log_request_id_store[c]
      BY <3>1, Zenon DEF Store
    <3> HIDE DEF C
    <3>5. u \in Store
      BY <3>2, <3>3 DEF Store
    <3>6. /\ u.cli_log_request_id_store = C
          /\ u.log_providers_store = s.log_providers_store
          /\ u.agent_log_request_ids_store = s.agent_log_request_ids_store
          /\ u.workload_name_request_id_store = s.workload_name_request_id_store
      BY <3>2 DEF Store
    <3> QED
      BY <2>1, <3>4, <3>5, <3>6, Zenon
  <2>2. CASE r \notin CliRequestId
    <3>1. r \in AgentRequestId /\ r.agent \in Agent /\ r.workload \in Name
      BY <2>2 DEF RequestId, AgentRequestId
    <3> DEFINE N == [s.workload_name_request_id_store EXCEPT ![r.workload] = @ \cup {r}]
               A == [s.agent_log_request_ids_store EXCEPT ![r.agent] = @ \cup {r}]
    <3>2. u = [s EXCEPT !.workload_name_request_id_store = N, !.agent_log_request_ids_store = A]
      BY <2>2 DEF InsertRequest, Store
    <3>3. N \in [Name -> SUBSET AgentRequestId] /\ A \in [Agent -> SUBSET AgentRequestId]
      BY <3>1 DEF Store
    <3>4. /\ \A a \in Agent : A[a] = IF a = r.agent THEN s.agent_log_request_ids_store[a] \cup {r}
                                     ELSE s.agent_log_request_ids_store[a]
          /\ \A n \in Name : N[n] = IF n = r.workload THEN s.workload_name_request_id_store[n] \cup {r}
                                    ELSE s.workload_name_request_id_store[n]
      BY <3>1, Zenon DEF Store
    <3> HIDE DEF A, N
    <3>5. u \in Store
      BY <3>2, <3>3, Zenon DEF Store
    <3>6. /\ u.cli_log_request_id_store = s.cli_log_request_id_store
          /\ u.log_providers_store = s.log_providers_store
          /\ u.agent_log_request_ids_store = A
          /\ u.workload_name_request_id_store = N
      BY <3>2 DEF Store
    <3> QED
      <4>1. \A c \in Cli, q \in RequestId : q \in u.cli_log_request_id_store[c] <=>
              q \in s.cli_log_request_id_store[c] \/ (q = r /\ r \in CliRequestId /\ c = r.cli)
        BY <2>2, <3>6
      <4>2. \A a \in Agent, q \in RequestId : q \in u.agent_log_request_ids_store[a] <=>
              q \in s.agent_log_request_ids_store[a] \/ (q = r /\ r \notin CliRequestId /\ a = r.agent)
        BY <2>2, <3>4, <3>6, ZenonT(30)
      <4>3. \A n \in Name, q \in RequestId : q \in u.workload_name_request_id_store[n] <=>
              q \in s.workload_name_request_id_store[n] \/ (q = r /\ r \notin CliRequestId /\ n = r.workload)
        BY <2>2, <3>4, <3>6, ZenonT(30)
      <4> QED
        BY <3>5, <3>6, <4>1, <4>2, <4>3
  <2> QED
    BY <2>1, <2>2
<1> HIDE DEF u
<1> DEFINE L == [a \in Agent |-> [s.log_providers_store[a] EXCEPT ![r] = @ \cup {i \in P : i.agent = a}]]
<1>2. L \in [Agent -> [RequestId -> SUBSET Instance]]
  BY DEF Store
<1>3. insert_log_campaign(s, r, P) = [u EXCEPT !.log_providers_store = L]
  BY DEF insert_log_campaign, u
<1>4. /\ \A a \in Agent, q \in RequestId : q # r => L[a][q] = s.log_providers_store[a][q]
      /\ \A a \in Agent, q \in RequestId : \A i \in L[a][q] : i \in s.log_providers_store[a][q] \/ i.agent = a
  BY DEF Store
<1> HIDE DEF L
<1>5. [u EXCEPT !.log_providers_store = L] \in Store
  BY <1>1, <1>2 DEF Store
<1>6. /\ [u EXCEPT !.log_providers_store = L].log_providers_store = L
      /\ [u EXCEPT !.log_providers_store = L].cli_log_request_id_store = u.cli_log_request_id_store
      /\ [u EXCEPT !.log_providers_store = L].agent_log_request_ids_store = u.agent_log_request_ids_store
      /\ [u EXCEPT !.log_providers_store = L].workload_name_request_id_store = u.workload_name_request_id_store
  BY <1>1 DEF Store
<1> QED
  BY <1>1, <1>3, <1>4, <1>5, <1>6

\* remove_request_from_log_providers_store takes the providers of the requests, and
\* nothing else.
LEMMA RemoveRequestsStore ==
  ASSUME NEW s \in Store, NEW R
  PROVE  LET t == remove_requests_from_log_providers_store(s, R)
         IN /\ t \in Store
            /\ t.cli_log_request_id_store = s.cli_log_request_id_store
            /\ t.agent_log_request_ids_store = s.agent_log_request_ids_store
            /\ t.workload_name_request_id_store = s.workload_name_request_id_store
            /\ \A a \in Agent, q \in RequestId :
                 t.log_providers_store[a][q] = IF q \in R THEN {} ELSE s.log_providers_store[a][q]
<1> DEFINE L == [a \in Agent |-> [r \in RequestId |-> IF r \in R THEN {} ELSE s.log_providers_store[a][r]]]
           t == remove_requests_from_log_providers_store(s, R)
<1>1. L \in [Agent -> [RequestId -> SUBSET Instance]]
  BY DEF Store
<1>2. t = [s EXCEPT !.log_providers_store = L]
  BY DEF remove_requests_from_log_providers_store
<1>3. \A a \in Agent, q \in RequestId : L[a][q] = IF q \in R THEN {} ELSE s.log_providers_store[a][q]
  OBVIOUS
<1> HIDE DEF L, t
<1>4. t \in Store
  BY <1>1, <1>2 DEF Store
<1>5. /\ t.log_providers_store = L
      /\ t.cli_log_request_id_store = s.cli_log_request_id_store
      /\ t.agent_log_request_ids_store = s.agent_log_request_ids_store
      /\ t.workload_name_request_id_store = s.workload_name_request_id_store
  BY <1>2 DEF Store
<1> QED
  BY <1>3, <1>4, <1>5 DEF t

\* RemoveFromIndexes takes the requests from the three indexes.
LEMMA RemoveIndexesStore ==
  ASSUME NEW s \in Store, NEW R
  PROVE  LET t == RemoveFromIndexes(s, R)
         IN /\ t \in Store
            /\ t.log_providers_store = s.log_providers_store
            /\ \A c \in Cli : t.cli_log_request_id_store[c] = s.cli_log_request_id_store[c] \ R
            /\ \A a \in Agent : t.agent_log_request_ids_store[a] = s.agent_log_request_ids_store[a] \ R
            /\ \A n \in Name : t.workload_name_request_id_store[n] = s.workload_name_request_id_store[n] \ R
<1> DEFINE C == [c \in Cli |-> s.cli_log_request_id_store[c] \ R]
           A == [a \in Agent |-> s.agent_log_request_ids_store[a] \ R]
           N == [n \in Name |-> s.workload_name_request_id_store[n] \ R]
           t == RemoveFromIndexes(s, R)
<1>1. /\ C \in [Cli -> SUBSET CliRequestId]
      /\ A \in [Agent -> SUBSET AgentRequestId]
      /\ N \in [Name -> SUBSET AgentRequestId]
  BY DEF Store
<1>2. t = [s EXCEPT !.cli_log_request_id_store = C, !.agent_log_request_ids_store = A,
                    !.workload_name_request_id_store = N]
  BY DEF RemoveFromIndexes
<1>3. /\ \A c \in Cli : C[c] = s.cli_log_request_id_store[c] \ R
      /\ \A a \in Agent : A[a] = s.agent_log_request_ids_store[a] \ R
      /\ \A n \in Name : N[n] = s.workload_name_request_id_store[n] \ R
  OBVIOUS
<1> HIDE DEF C, A, N, t
<1>4. t \in Store
  BY <1>1, <1>2, Zenon DEF Store
<1>5. /\ t.log_providers_store = s.log_providers_store
      /\ t.cli_log_request_id_store = C
      /\ t.agent_log_request_ids_store = A
      /\ t.workload_name_request_id_store = N
  BY <1>2 DEF Store
<1> QED
  BY <1>3, <1>4, <1>5 DEF t

\* remove_agent_log_campaign_entry: the collectors on the agent are forgotten, and
\* with them all that the index by name has under their names.
LEMMA RemoveAgentStore ==
  ASSUME NEW s \in Store, NEW b \in Agent
  PROVE  LET t == remove_agent_log_campaign_entry(s, b)
             R == s.agent_log_request_ids_store[b]
         IN /\ t \in Store
            /\ t.cli_log_request_id_store = s.cli_log_request_id_store
            /\ \A a \in Agent : t.agent_log_request_ids_store[a] =
                 IF a = b THEN {} ELSE s.agent_log_request_ids_store[a]
            /\ \A n \in Name : t.workload_name_request_id_store[n] =
                 IF \E r \in R : r.workload = n THEN {} ELSE s.workload_name_request_id_store[n]
            /\ \A a \in Agent, q \in RequestId :
                 t.log_providers_store[a][q] = IF q \in R \/ a = b THEN {} ELSE s.log_providers_store[a][q]
<1> DEFINE R == s.agent_log_request_ids_store[b]
           u == remove_requests_from_log_providers_store(s, R)
           t == remove_agent_log_campaign_entry(s, b)
           A == [u.agent_log_request_ids_store EXCEPT ![b] = {}]
           N == [n \in Name |-> IF \E r \in R : r.workload = n THEN {} ELSE s.workload_name_request_id_store[n]]
           L == [u.log_providers_store EXCEPT ![b] = [r \in RequestId |-> {}]]
<1>1. t = [u EXCEPT !.agent_log_request_ids_store = A, !.workload_name_request_id_store = N,
                    !.log_providers_store = L]
  BY DEF remove_agent_log_campaign_entry
<1>2. /\ u \in Store
      /\ u.cli_log_request_id_store = s.cli_log_request_id_store
      /\ u.agent_log_request_ids_store = s.agent_log_request_ids_store
      /\ \A a \in Agent, q \in RequestId :
           u.log_providers_store[a][q] = IF q \in R THEN {} ELSE s.log_providers_store[a][q]
  BY RemoveRequestsStore
<1> HIDE DEF u, t, R
<1>3. /\ A \in [Agent -> SUBSET AgentRequestId]
      /\ N \in [Name -> SUBSET AgentRequestId]
      /\ L \in [Agent -> [RequestId -> SUBSET Instance]]
  BY <1>2 DEF Store
<1>4. /\ \A a \in Agent : A[a] = IF a = b THEN {} ELSE s.agent_log_request_ids_store[a]
      /\ \A n \in Name : N[n] = IF \E r \in R : r.workload = n THEN {} ELSE s.workload_name_request_id_store[n]
  BY <1>2 DEF Store
<1>5. \A a \in Agent, q \in RequestId :
        L[a][q] = IF q \in R \/ a = b THEN {} ELSE s.log_providers_store[a][q]
  BY <1>2 DEF Store
<1> HIDE DEF A, N, L
<1>6. t \in Store
  BY <1>1, <1>2, <1>3, Zenon DEF Store
<1>7. /\ t.log_providers_store = L
      /\ t.cli_log_request_id_store = u.cli_log_request_id_store
      /\ t.agent_log_request_ids_store = A
      /\ t.workload_name_request_id_store = N
  BY <1>1, <1>2 DEF Store
<1> QED
  BY <1>2, <1>4, <1>5, <1>6, <1>7 DEF t, R

\* remove_cli_log_campaign_entry: the client's requests are forgotten.
LEMMA RemoveCliStore ==
  ASSUME NEW s \in Store, NEW k \in Cli
  PROVE  LET t == remove_cli_log_campaign_entry(s, k)
             R == s.cli_log_request_id_store[k]
         IN /\ t \in Store
            /\ t.agent_log_request_ids_store = s.agent_log_request_ids_store
            /\ t.workload_name_request_id_store = s.workload_name_request_id_store
            /\ \A c \in Cli : t.cli_log_request_id_store[c] =
                 IF c = k THEN {} ELSE s.cli_log_request_id_store[c]
            /\ \A a \in Agent, q \in RequestId :
                 t.log_providers_store[a][q] = IF q \in R THEN {} ELSE s.log_providers_store[a][q]
<1> DEFINE R == s.cli_log_request_id_store[k]
           u == remove_requests_from_log_providers_store(s, R)
           t == remove_cli_log_campaign_entry(s, k)
           C == [u.cli_log_request_id_store EXCEPT ![k] = {}]
<1>1. t = [u EXCEPT !.cli_log_request_id_store = C]
  BY DEF remove_cli_log_campaign_entry
<1>2. /\ u \in Store
      /\ u.cli_log_request_id_store = s.cli_log_request_id_store
      /\ u.agent_log_request_ids_store = s.agent_log_request_ids_store
      /\ u.workload_name_request_id_store = s.workload_name_request_id_store
      /\ \A a \in Agent, q \in RequestId :
           u.log_providers_store[a][q] = IF q \in R THEN {} ELSE s.log_providers_store[a][q]
  BY RemoveRequestsStore
<1> HIDE DEF u, t, R
<1>3. C \in [Cli -> SUBSET CliRequestId]
  BY <1>2 DEF Store
<1>4. \A c \in Cli : C[c] = IF c = k THEN {} ELSE s.cli_log_request_id_store[c]
  BY <1>2 DEF Store
<1> HIDE DEF C
<1>5. t \in Store
  BY <1>1, <1>2, <1>3 DEF Store
<1>6. /\ t.log_providers_store = u.log_providers_store
      /\ t.cli_log_request_id_store = C
      /\ t.agent_log_request_ids_store = u.agent_log_request_ids_store
      /\ t.workload_name_request_id_store = u.workload_name_request_id_store
  BY <1>1, <1>2 DEF Store
<1> QED
  BY <1>2, <1>4, <1>5, <1>6 DEF t, R

\* Both at once, as remove_logs_request_id and remove_collector_campaign_entry do.
LEMMA ForgetStore ==
  ASSUME NEW s \in Store, NEW R
  PROVE  LET t == RemoveFromIndexes(remove_requests_from_log_providers_store(s, R), R)
         IN /\ t \in Store
            /\ \A c \in Cli : t.cli_log_request_id_store[c] = s.cli_log_request_id_store[c] \ R
            /\ \A a \in Agent : t.agent_log_request_ids_store[a] = s.agent_log_request_ids_store[a] \ R
            /\ \A n \in Name : t.workload_name_request_id_store[n] = s.workload_name_request_id_store[n] \ R
            /\ \A a \in Agent, q \in RequestId :
                 t.log_providers_store[a][q] = IF q \in R THEN {} ELSE s.log_providers_store[a][q]
<1> DEFINE u == remove_requests_from_log_providers_store(s, R)
<1>1. /\ u \in Store
      /\ u.cli_log_request_id_store = s.cli_log_request_id_store
      /\ u.agent_log_request_ids_store = s.agent_log_request_ids_store
      /\ u.workload_name_request_id_store = s.workload_name_request_id_store
      /\ \A a \in Agent, q \in RequestId :
           u.log_providers_store[a][q] = IF q \in R THEN {} ELSE s.log_providers_store[a][q]
  BY RemoveRequestsStore
<1> HIDE DEF u
<1>2. LET t == RemoveFromIndexes(u, R)
      IN /\ t \in Store
         /\ t.log_providers_store = u.log_providers_store
         /\ \A c \in Cli : t.cli_log_request_id_store[c] = u.cli_log_request_id_store[c] \ R
         /\ \A a \in Agent : t.agent_log_request_ids_store[a] = u.agent_log_request_ids_store[a] \ R
         /\ \A n \in Name : t.workload_name_request_id_store[n] = u.workload_name_request_id_store[n] \ R
  BY <1>1, RemoveIndexesStore
<1> QED
  BY <1>1, <1>2 DEF u

-----------------------------------------------------------------------------
(* The invariant *)

\* A request is in the index by agent under its own agent, and in the index by name
\* unless the end of another agent took it from there.
Indexed ==
  \A a \in Agent : \A q \in log_campaign_store.agent_log_request_ids_store[a] :
    /\ q.agent = a
    /\ q \in log_campaign_store.workload_name_request_id_store[q.workload] \/ q \in swept

CampaignInv ==
  /\ desired \subseteq Instance /\ log_campaign_store \in Store
  /\ ProvidersHaveCollectors /\ Indexed /\ DeletedCollectorsCancelled

\* The store is empty at first.
LEMMA InitCampaigns == Init => CampaignInv
<1> SUFFICES ASSUME Init PROVE CampaignInv
  OBVIOUS
<1>1. desired \subseteq Instance
  BY LogCampaignsAssumption DEF Init, LogCampaignsAssumption
<1>2. log_campaign_store \in Store
  BY DEF Init, EmptyStore, Store
<1>3. /\ \A a \in Agent : log_campaign_store.agent_log_request_ids_store[a] = {}
      /\ \A c \in Cli : log_campaign_store.cli_log_request_id_store[c] = {}
      /\ \A a \in Agent, r \in RequestId : log_campaign_store.log_providers_store[a][r] = {}
  BY DEF Init, EmptyStore
<1> QED
  BY <1>1, <1>2, <1>3 DEF CampaignInv, ProvidersHaveCollectors, Indexed, DeletedCollectorsCancelled, Known

\* HandleLogsRequest enters the request in both indexes, and the request of a
\* collector that is not desired any more among the late ones.
LEMMA LogsRequestKeeps == CampaignInv /\ HandleLogsRequest => CampaignInv'
<1> SUFFICES ASSUME CampaignInv, HandleLogsRequest PROVE CampaignInv'
  OBVIOUS
<1> DEFINE s == log_campaign_store
           P == Head(to_server).instances \cap desired
<1>1. PICK r \in RequestId :
        /\ s' = IF P = {} THEN s ELSE insert_log_campaign(s, r, P)
        /\ IF P # {} /\ r \in AgentRequestId
           THEN /\ late' = (late \ {r}) \cup ({r} \cap {q \in AgentRequestId : collector(q) \notin desired})
                /\ swept' = swept \ {r}
           ELSE UNCHANGED <<late, swept>>
  BY DEF HandleLogsRequest
<1>2. desired' = desired
  BY DEF HandleLogsRequest
<1>3. P \in SUBSET Instance /\ s \in Store
  BY DEF CampaignInv
<1>4. CASE P = {}
  BY <1>1, <1>2, <1>4 DEF CampaignInv, ProvidersHaveCollectors, Indexed, DeletedCollectorsCancelled, Known
<1>5. CASE P # {}
  <2>1. /\ s' \in Store
        /\ \A a \in Agent, q \in RequestId :
             q # r => s'.log_providers_store[a][q] = s.log_providers_store[a][q]
        /\ \A c \in Cli, q \in RequestId : q \in s'.cli_log_request_id_store[c] <=>
             q \in s.cli_log_request_id_store[c] \/ (q = r /\ r \in CliRequestId /\ c = r.cli)
        /\ \A a \in Agent, q \in RequestId : q \in s'.agent_log_request_ids_store[a] <=>
             q \in s.agent_log_request_ids_store[a] \/ (q = r /\ r \notin CliRequestId /\ a = r.agent)
        /\ \A n \in Name, q \in RequestId : q \in s'.workload_name_request_id_store[n] <=>
             q \in s.workload_name_request_id_store[n] \/ (q = r /\ r \notin CliRequestId /\ n = r.workload)
    <3>1. s' = insert_log_campaign(s, r, P)
      BY <1>1, <1>5
    <3> HIDE DEF P
    <3>2. LET t == insert_log_campaign(s, r, P)
          IN /\ t \in Store
             /\ \A a \in Agent, q \in RequestId :
                  q # r => t.log_providers_store[a][q] = s.log_providers_store[a][q]
             /\ \A c \in Cli, q \in RequestId : q \in t.cli_log_request_id_store[c] <=>
                  q \in s.cli_log_request_id_store[c] \/ (q = r /\ r \in CliRequestId /\ c = r.cli)
             /\ \A a \in Agent, q \in RequestId : q \in t.agent_log_request_ids_store[a] <=>
                  q \in s.agent_log_request_ids_store[a] \/ (q = r /\ r \notin CliRequestId /\ a = r.agent)
             /\ \A n \in Name, q \in RequestId : q \in t.workload_name_request_id_store[n] <=>
                  q \in s.workload_name_request_id_store[n] \/ (q = r /\ r \notin CliRequestId /\ n = r.workload)
      BY <1>3, InsertStore
    <3> QED
      BY <3>1, <3>2
  <2>2. r \in CliRequestId \/ r \in AgentRequestId
    BY DEF RequestId
  <2>3. r \in CliRequestId => r \notin AgentRequestId /\ r.cli \in Cli
    BY KindsDiffer DEF CliRequestId
  <2>4. r \in AgentRequestId => r \notin CliRequestId /\ r.agent \in Agent /\ r.workload \in Name
    BY KindsDiffer DEF AgentRequestId
  <2>5. ProvidersHaveCollectors'
    <3> SUFFICES ASSUME NEW q \in RequestId, NEW a \in Agent, s'.log_providers_store[a][q] # {}
                 PROVE  Known(q)'
      BY DEF ProvidersHaveCollectors
    <3>1. CASE q = r
      BY <2>1, <2>2, <2>3, <2>4, <3>1 DEF Known
    <3>2. CASE q # r
      <4>1. Known(q)
        BY <2>1, <3>2 DEF CampaignInv, ProvidersHaveCollectors
      <4> QED
        BY <2>1, <4>1 DEF Known
    <3> QED
      BY <3>1, <3>2
  <2>6. Indexed'
    <3> SUFFICES ASSUME NEW a \in Agent, NEW q \in s'.agent_log_request_ids_store[a]
                 PROVE  /\ q.agent = a
                        /\ q \in s'.workload_name_request_id_store[q.workload] \/ q \in swept'
      BY DEF Indexed
    <3>0. q \in AgentRequestId /\ q \in RequestId /\ q.workload \in Name
      BY <2>1 DEF Store, AgentRequestId, RequestId
    <3>1. CASE q = r
      <4>1. r \in AgentRequestId
        BY <3>0, <3>1
      <4>2. r \in s.agent_log_request_ids_store[a] => r.agent = a
        BY DEF CampaignInv, Indexed
      <4> QED
        BY <2>1, <2>4, <3>1, <4>1, <4>2
    <3>2. CASE q # r
      <4>1. q \in s.agent_log_request_ids_store[a]
        BY <2>1, <3>0, <3>2
      <4>2. q.agent = a /\ (q \in s.workload_name_request_id_store[q.workload] \/ q \in swept)
        BY <4>1 DEF CampaignInv, Indexed
      <4>3. q \in swept => q \in swept'
        BY <1>1, <3>2
      <4> QED
        BY <2>1, <3>0, <4>2, <4>3
    <3> QED
      BY <3>1, <3>2
  <2>7. DeletedCollectorsCancelled'
    <3> SUFFICES ASSUME NEW q \in AgentRequestId, Known(q)'
                 PROVE  collector(q) \in desired \/ q \in late' \cup swept'
      BY <1>2 DEF DeletedCollectorsCancelled, collector
    <3>1. CASE q = r
      BY <1>1, <1>5, <3>1
    <3>2. CASE q # r
      <4>1. Known(q)
        BY <2>1, <3>2 DEF Known, RequestId
      <4>2. collector(q) \in desired \/ q \in late \cup swept
        BY <4>1 DEF CampaignInv, DeletedCollectorsCancelled
      <4>3. (q \in late => q \in late') /\ (q \in swept => q \in swept')
        BY <1>1, <3>2
      <4> QED
        BY <4>2, <4>3
    <3> QED
      BY <3>1, <3>2
  <2> QED
    BY <1>2, <2>1, <2>5, <2>6, <2>7 DEF CampaignInv
<1> QED
  BY <1>4, <1>5

\* Forgetting requests, in all of the store at once, disturbs nothing.
LEMMA ForgetKeeps ==
  ASSUME CampaignInv, NEW R,
         log_campaign_store' =
           RemoveFromIndexes(remove_requests_from_log_providers_store(log_campaign_store, R), R),
         UNCHANGED <<late, swept>>
  PROVE  /\ log_campaign_store' \in Store /\ ProvidersHaveCollectors' /\ Indexed'
         /\ \A q \in AgentRequestId : Known(q)' =>
              /\ Known(q) /\ q \notin R
              /\ q \in log_campaign_store.workload_name_request_id_store[q.workload] \/ q \in swept
<1> DEFINE s == log_campaign_store
<1>1. /\ s' \in Store
      /\ \A c \in Cli : s'.cli_log_request_id_store[c] = s.cli_log_request_id_store[c] \ R
      /\ \A a \in Agent : s'.agent_log_request_ids_store[a] = s.agent_log_request_ids_store[a] \ R
      /\ \A n \in Name : s'.workload_name_request_id_store[n] = s.workload_name_request_id_store[n] \ R
      /\ \A a \in Agent, q \in RequestId :
           s'.log_providers_store[a][q] = IF q \in R THEN {} ELSE s.log_providers_store[a][q]
  <2>1. s \in Store
    BY DEF CampaignInv
  <2>2. LET t == RemoveFromIndexes(remove_requests_from_log_providers_store(s, R), R)
        IN /\ t \in Store
           /\ \A c \in Cli : t.cli_log_request_id_store[c] = s.cli_log_request_id_store[c] \ R
           /\ \A a \in Agent : t.agent_log_request_ids_store[a] = s.agent_log_request_ids_store[a] \ R
           /\ \A n \in Name : t.workload_name_request_id_store[n] = s.workload_name_request_id_store[n] \ R
           /\ \A a \in Agent, q \in RequestId :
                t.log_providers_store[a][q] = IF q \in R THEN {} ELSE s.log_providers_store[a][q]
    BY <2>1, ForgetStore
  <2> QED
    BY <2>2
<1>2. ProvidersHaveCollectors'
  <2> SUFFICES ASSUME NEW q \in RequestId, NEW a \in Agent, s'.log_providers_store[a][q] # {}
               PROVE  Known(q)'
    BY DEF ProvidersHaveCollectors
  <2>1. q \notin R /\ s.log_providers_store[a][q] # {}
    BY <1>1
  <2>2. Known(q)
    BY <2>1 DEF CampaignInv, ProvidersHaveCollectors
  <2> QED
    BY <1>1, <2>1, <2>2 DEF Known
<1>3. Indexed'
  <2> SUFFICES ASSUME NEW a \in Agent, NEW q \in s'.agent_log_request_ids_store[a]
               PROVE  /\ q.agent = a
                      /\ q \in s'.workload_name_request_id_store[q.workload] \/ q \in swept'
    BY DEF Indexed
  <2>1. q \in s.agent_log_request_ids_store[a] /\ q \notin R
    BY <1>1
  <2>2. q.agent = a /\ (q \in s.workload_name_request_id_store[q.workload] \/ q \in swept)
    BY <2>1 DEF CampaignInv, Indexed
  <2>3. q.workload \in Name
    BY <1>1 DEF Store, AgentRequestId
  <2> QED
    BY <1>1, <2>1, <2>2, <2>3
<1>4. ASSUME NEW q \in AgentRequestId, Known(q)'
      PROVE  /\ Known(q) /\ q \notin R
             /\ q \in s.workload_name_request_id_store[q.workload] \/ q \in swept
  <2>1. q \notin CliRequestId
    BY KindsDiffer
  <2>2. \A c \in Cli : q \notin s'.cli_log_request_id_store[c]
    BY <1>1, <2>1 DEF Store
  <2>3. PICK a \in Agent : q \in s'.agent_log_request_ids_store[a]
    BY <1>4, <2>2 DEF Known
  <2>4. q \in s.agent_log_request_ids_store[a] /\ q \notin R
    BY <1>1, <2>3
  <2> QED
    BY <2>4 DEF Known, CampaignInv, Indexed
<1> QED
  BY <1>1, <1>2, <1>3, <1>4

\* A cancelled request leaves the providers and every index.
LEMMA LogsCancelKeeps == CampaignInv /\ HandleLogsCancelRequest => CampaignInv'
<1> SUFFICES ASSUME CampaignInv, HandleLogsCancelRequest PROVE CampaignInv'
  OBVIOUS
<1>1. PICK r \in RequestId : log_campaign_store' = remove_logs_request_id(log_campaign_store, r)
  BY DEF HandleLogsCancelRequest
<1>2. desired' = desired /\ UNCHANGED <<late, swept>>
  BY DEF HandleLogsCancelRequest
<1>3. log_campaign_store' =
        RemoveFromIndexes(remove_requests_from_log_providers_store(log_campaign_store, {r}), {r})
  BY <1>1 DEF remove_logs_request_id
<1>4. /\ log_campaign_store' \in Store /\ ProvidersHaveCollectors' /\ Indexed'
      /\ \A q \in AgentRequestId : Known(q)' => Known(q)
  BY <1>2, <1>3, ForgetKeeps
<1>5. DeletedCollectorsCancelled'
  BY <1>2, <1>4 DEF CampaignInv, DeletedCollectorsCancelled, collector
<1> QED
  BY <1>2, <1>4, <1>5 DEF CampaignInv

\* A collector that leaves the desired state leaves with what the index by name has
\* under its name, which is all it has unless another agent's end was there first.
LEMMA UpdateStateKeeps == CampaignInv /\ HandleUpdateState => CampaignInv'
<1> SUFFICES ASSUME CampaignInv, HandleUpdateState PROVE CampaignInv'
  OBVIOUS
<1>1. PICK W \in Update :
        /\ desired' = W
        /\ log_campaign_store' =
             remove_collector_campaign_entries(log_campaign_store, {i.name : i \in desired \ W})
  BY Zenon DEF HandleUpdateState
<1> DEFINE N == {i.name : i \in desired \ W}
           R == UNION {log_campaign_store.workload_name_request_id_store[n] : n \in N}
<1>2. UNCHANGED <<late, swept>> /\ desired' \subseteq Instance
  BY <1>1, LogCampaignsAssumption DEF HandleUpdateState, LogCampaignsAssumption
<1>3. log_campaign_store' =
        RemoveFromIndexes(remove_requests_from_log_providers_store(log_campaign_store, R), R)
  BY <1>1 DEF remove_collector_campaign_entries
<1> HIDE DEF R
<1>4. /\ log_campaign_store' \in Store /\ ProvidersHaveCollectors' /\ Indexed'
      /\ \A q \in AgentRequestId : Known(q)' =>
           /\ Known(q) /\ q \notin R
           /\ q \in log_campaign_store.workload_name_request_id_store[q.workload] \/ q \in swept
  BY <1>2, <1>3, ForgetKeeps
<1>5. DeletedCollectorsCancelled'
  <2> SUFFICES ASSUME NEW q \in AgentRequestId, Known(q)', collector(q) \notin W
               PROVE  q \in late \cup swept
    BY <1>1, <1>2 DEF DeletedCollectorsCancelled, collector
  <2>1. collector(q) \in desired \/ q \in late \cup swept
    BY <1>4 DEF CampaignInv, DeletedCollectorsCancelled
  <2>2. CASE collector(q) \in desired
    <3>1. collector(q) \in desired \ W /\ collector(q).name = q.workload
      BY <2>2 DEF collector
    <3>2. q.workload \in N
      BY <3>1
    <3>3. q \notin log_campaign_store.workload_name_request_id_store[q.workload]
      BY <1>4, <3>2 DEF R
    <3> QED
      BY <1>4, <3>3
  <2> QED
    BY <2>1, <2>2
<1> QED
  BY <1>2, <1>4, <1>5 DEF CampaignInv

\* The end of an agent takes other agents' requests from the index by name, those
\* that are swept from then on.
LEMMA AgentGoneKeeps == CampaignInv /\ HandleAgentGone => CampaignInv'
<1> SUFFICES ASSUME CampaignInv, HandleAgentGone PROVE CampaignInv'
  OBVIOUS
<1> DEFINE s == log_campaign_store
<1>1. PICK b \in Agent :
        /\ s' = remove_agent_log_campaign_entry(s, b)
        /\ swept' = swept \cup
             ((UNION {s.workload_name_request_id_store[r.workload] : r \in s.agent_log_request_ids_store[b]})
              \ s.agent_log_request_ids_store[b])
  BY DEF HandleAgentGone
<1> DEFINE R == s.agent_log_request_ids_store[b]
<1>2. desired' = desired /\ late' = late
  BY DEF HandleAgentGone
<1>3. /\ s' \in Store
      /\ s'.cli_log_request_id_store = s.cli_log_request_id_store
      /\ \A a \in Agent : s'.agent_log_request_ids_store[a] =
           IF a = b THEN {} ELSE s.agent_log_request_ids_store[a]
      /\ \A n \in Name : s'.workload_name_request_id_store[n] =
           IF \E r \in R : r.workload = n THEN {} ELSE s.workload_name_request_id_store[n]
      /\ \A a \in Agent, q \in RequestId :
           s'.log_providers_store[a][q] = IF q \in R \/ a = b THEN {} ELSE s.log_providers_store[a][q]
  <2>1. s \in Store
    BY DEF CampaignInv
  <2>2. LET t == remove_agent_log_campaign_entry(s, b)
        IN /\ t \in Store
           /\ t.cli_log_request_id_store = s.cli_log_request_id_store
           /\ \A a \in Agent : t.agent_log_request_ids_store[a] =
                IF a = b THEN {} ELSE s.agent_log_request_ids_store[a]
           /\ \A n \in Name : t.workload_name_request_id_store[n] =
                IF \E r \in R : r.workload = n THEN {} ELSE s.workload_name_request_id_store[n]
           /\ \A a \in Agent, q \in RequestId :
                t.log_providers_store[a][q] = IF q \in R \/ a = b THEN {} ELSE s.log_providers_store[a][q]
    BY <2>1, RemoveAgentStore
  <2> QED
    BY <1>1, <2>2
<1>4. ProvidersHaveCollectors'
  <2> SUFFICES ASSUME NEW q \in RequestId, NEW a \in Agent, s'.log_providers_store[a][q] # {}
               PROVE  Known(q)'
    BY DEF ProvidersHaveCollectors
  <2>1. q \notin R /\ s.log_providers_store[a][q] # {}
    BY <1>3
  <2>2. Known(q)
    BY <2>1 DEF CampaignInv, ProvidersHaveCollectors
  <2> QED
    BY <1>3, <2>1, <2>2 DEF Known
<1>5. Indexed'
  <2> SUFFICES ASSUME NEW a \in Agent, NEW q \in s'.agent_log_request_ids_store[a]
               PROVE  /\ q.agent = a
                      /\ q \in s'.workload_name_request_id_store[q.workload] \/ q \in swept'
    BY DEF Indexed
  <2>1. a # b /\ q \in s.agent_log_request_ids_store[a]
    BY <1>3
  <2>2. q.agent = a /\ (q \in s.workload_name_request_id_store[q.workload] \/ q \in swept)
    BY <2>1 DEF CampaignInv, Indexed
  <2>3. q.workload \in Name
    BY <1>3 DEF Store, AgentRequestId
  <2>4. q \notin R
    BY <2>1, <2>2 DEF CampaignInv, Indexed
  <2>5. CASE \E r \in R : r.workload = q.workload
    <3>1. PICK r \in R : r.workload = q.workload
      BY <2>5
    <3> DEFINE M == UNION {s.workload_name_request_id_store[p.workload] : p \in R}
    <3>2. q \in s.workload_name_request_id_store[q.workload] => q \in M
      BY <3>1
    <3>3. swept' = swept \cup (M \ R)
      BY <1>1
    <3> HIDE DEF M, R
    <3>4. q \in swept'
      BY <2>2, <2>4, <3>2, <3>3
    <3> QED
      BY <2>2, <3>4
  <2>6. CASE ~ \E r \in R : r.workload = q.workload
    BY <1>1, <1>3, <2>2, <2>3, <2>6
  <2> QED
    BY <2>2, <2>5, <2>6
<1>6. DeletedCollectorsCancelled'
  <2> SUFFICES ASSUME NEW q \in AgentRequestId, Known(q)'
               PROVE  collector(q) \in desired \/ q \in late \cup swept'
    BY <1>2 DEF DeletedCollectorsCancelled, collector
  <2>1. Known(q)
    BY <1>3 DEF Known
  <2> QED
    BY <1>1, <2>1 DEF CampaignInv, DeletedCollectorsCancelled
<1> QED
  BY <1>2, <1>3, <1>4, <1>5, <1>6 DEF CampaignInv

\* The end of a client takes its requests from the providers and its own index.
LEMMA GoodbyeKeeps == CampaignInv /\ HandleGoodbye => CampaignInv'
<1> SUFFICES ASSUME CampaignInv, HandleGoodbye PROVE CampaignInv'
  OBVIOUS
<1> DEFINE s == log_campaign_store
<1>1. PICK k \in Cli : s' = remove_cli_log_campaign_entry(s, k)
  BY DEF HandleGoodbye
<1> DEFINE R == s.cli_log_request_id_store[k]
<1>2. desired' = desired /\ late' = late /\ swept' = swept
  BY DEF HandleGoodbye
<1>3. /\ s' \in Store
      /\ s'.agent_log_request_ids_store = s.agent_log_request_ids_store
      /\ s'.workload_name_request_id_store = s.workload_name_request_id_store
      /\ \A c \in Cli : s'.cli_log_request_id_store[c] = IF c = k THEN {} ELSE s.cli_log_request_id_store[c]
      /\ \A a \in Agent, q \in RequestId :
           s'.log_providers_store[a][q] = IF q \in R THEN {} ELSE s.log_providers_store[a][q]
  <2>1. s \in Store
    BY DEF CampaignInv
  <2>2. LET t == remove_cli_log_campaign_entry(s, k)
        IN /\ t \in Store
           /\ t.agent_log_request_ids_store = s.agent_log_request_ids_store
           /\ t.workload_name_request_id_store = s.workload_name_request_id_store
           /\ \A c \in Cli : t.cli_log_request_id_store[c] = IF c = k THEN {} ELSE s.cli_log_request_id_store[c]
           /\ \A a \in Agent, q \in RequestId :
                t.log_providers_store[a][q] = IF q \in R THEN {} ELSE s.log_providers_store[a][q]
    BY <2>1, RemoveCliStore
  <2> QED
    BY <1>1, <2>2
<1>4. ProvidersHaveCollectors'
  <2> SUFFICES ASSUME NEW q \in RequestId, NEW a \in Agent, s'.log_providers_store[a][q] # {}
               PROVE  Known(q)'
    BY DEF ProvidersHaveCollectors
  <2>1. q \notin R /\ s.log_providers_store[a][q] # {}
    BY <1>3
  <2>2. Known(q)
    BY <2>1 DEF CampaignInv, ProvidersHaveCollectors
  <2> QED
    BY <1>3, <2>1, <2>2 DEF Known
<1>5. Indexed'
  BY <1>2, <1>3 DEF CampaignInv, Indexed
<1>6. DeletedCollectorsCancelled'
  <2>1. \A q \in AgentRequestId : Known(q)' => Known(q)
    BY <1>3 DEF Known
  <2> QED
    BY <1>2, <2>1 DEF CampaignInv, DeletedCollectorsCancelled, collector
<1> QED
  BY <1>2, <1>3, <1>4, <1>5, <1>6 DEF CampaignInv

\* Whatever leaves the server's state alone.
LEMMA UnchangedKeeps == CampaignInv /\ UNCHANGED serverVars => CampaignInv'
BY DEF CampaignInv, serverVars, ProvidersHaveCollectors, Indexed, DeletedCollectorsCancelled,
       Known, collector

\* Every step, one action after the other.
LEMMA NextKeepsCampaigns == CampaignInv /\ [Next]_vars => CampaignInv'
<1> SUFFICES ASSUME CampaignInv, [Next]_vars PROVE CampaignInv'
  OBVIOUS
<1>1. CASE HandleLogsRequest
  BY <1>1, LogsRequestKeeps
<1>2. CASE HandleLogsCancelRequest
  BY <1>2, LogsCancelKeeps
<1>3. CASE HandleUpdateState
  BY <1>3, UpdateStateKeeps
<1>4. CASE HandleAgentGone
  BY <1>4, AgentGoneKeeps
<1>5. CASE HandleGoodbye
  BY <1>5, GoodbyeKeeps
<1>6. CASE HandleLogsStopResponse
  BY <1>6, UnchangedKeeps DEF HandleLogsStopResponse
<1>7. CASE RequestUpdate
  BY <1>7, UnchangedKeeps DEF RequestUpdate
<1>8. ASSUME NEW a \in Agent, execute_from_server_command(a) \/ Connect(a) \/ LogTask(a) \/ Drop(a)
      PROVE  CampaignInv'
  BY <1>8, UnchangedKeeps, Zenon DEF execute_from_server_command, Connect, LogTask, Drop, TaskEnds, LogEnds
<1>9. ASSUME NEW a \in Agent, NEW r \in RequestId, NEW i \in alive, LogEnds(a, r, i)
      PROVE  CampaignInv'
  BY <1>9, UnchangedKeeps DEF LogEnds
<1>10. ASSUME NEW i \in Instance, WorkloadStep(i) \/ CollectorStep(i)
       PROVE  CampaignInv'
  BY <1>10, UnchangedKeeps DEF WorkloadStep, CollectorStep
<1>11. ASSUME NEW c \in Cli, CliTask(c) \/ send_logs_request_for_workloads(c) \/ Interrupt(c)
       PROVE  CampaignInv'
  BY <1>11, UnchangedKeeps DEF CliTask, get_logs_accepted_response, listen_for_workload_logs,
     send_logs_request_for_workloads, Interrupt
<1>12. CASE UNCHANGED vars
  BY <1>12, UnchangedKeeps DEF vars
<1> QED
  BY <1>1, <1>2, <1>3, <1>4, <1>5, <1>6, <1>7, <1>8, <1>9, <1>10, <1>11, <1>12 DEF Next, ServerStep

\* The invariant holds always.
LEMMA CampaignsInvariant == Spec => []CampaignInv
<1>1. Init => CampaignInv
  BY InitCampaigns
<1>2. CampaignInv /\ [Next]_vars => CampaignInv'
  BY NextKeepsCampaigns
<1> QED
  BY <1>1, <1>2, PTL DEF Spec

\* Whatever the sets of agents, workloads, clients and requests: the store
\* (log_campaign_store.rs) never holds providers of a request that no collector is
\* known for, and so none that nothing would remove any more.
THEOREM ProvidersAlwaysHaveCollectors == Spec => []ProvidersHaveCollectors
<1>1. CampaignInv => ProvidersHaveCollectors
  BY DEF CampaignInv
<1> QED
  BY <1>1, CampaignsInvariant, PTL

\* Whatever the sets of agents, workloads, clients and requests: the campaigns of a
\* workload end with the update that deletes it (ankaios_server.rs,
\* cancel_log_requests_of_deleted_workloads), but for those it starts later and
\* those that the end of another agent took from the index by name.
THEOREM DeletedCollectorsAreCancelled == Spec => []DeletedCollectorsCancelled
<1>1. CampaignInv => DeletedCollectorsCancelled
  BY DEF CampaignInv
<1> QED
  BY <1>1, CampaignsInvariant, PTL

-----------------------------------------------------------------------------
(* Types *)

\* A part of a message is a message.
LEMMA ForAgentType ==
  ASSUME NEW m \in Message, NEW a \in Agent
  PROVE  ForAgent(m, a) \in Seq(Message)
<1>1. CASE m.kind = "LogsRequest"
  <2> DEFINE P == {i \in m.instances : i.agent = a}
  <2>1. m.request \in RequestId /\ m.instances \in SUBSET Instance
    BY <1>1 DEF Message, ServerGone
  <2>2. LogsRequest(m.request, P) \in Message
    BY <2>1 DEF LogsRequest, Message
  <2>3. ForAgent(m, a) = IF P = {} THEN <<>> ELSE <<LogsRequest(m.request, P)>>
    BY <1>1 DEF ForAgent
  <2> HIDE DEF P
  <2> QED
    BY <2>2, <2>3
<1>2. CASE m.kind # "LogsRequest"
  <2>1. ForAgent(m, a) = <<m>> \/ ForAgent(m, a) = <<>>
    BY <1>2 DEF ForAgent
  <2>2. <<m>> \in Seq(Message) /\ <<>> \in Seq(Message)
    OBVIOUS
  <2> QED
    BY <2>1, <2>2, Zenon
<1> QED
  BY <1>1, <1>2

\* The parts of the messages make up a sequence of messages.
LEMMA PartsType ==
  ASSUME NEW M \in Seq(Message), NEW a \in Agent
  PROVE  Parts(M, a)[Len(M)] \in Seq(Message)
<1> DEFINE N == Len(M)
           S == Seq(Message)
           b == <<>>
           step == [n \in 1..N |-> [q \in S |-> q \o ForAgent(M[n], a)]]
           Body(t) == [n \in 0..N |-> IF n = 0 THEN <<>> ELSE t[n - 1] \o ForAgent(M[n], a)]
<1>1. N \in Nat /\ b \in S
  OBVIOUS
<1>2. step \in [1..N -> [S -> S]]
  <2>1. \A n \in 1..N : ForAgent(M[n], a) \in S
    BY ForAgentType
  <2> HIDE DEF N
  <2> QED
    BY <2>1
<1>3. Parts(M, a) = CHOOSE t : t = Body(t)
  BY DEF Parts
<1>4. \A n \in 1..N : \A q \in S : step[n][q] = q \o ForAgent(M[n], a)
  OBVIOUS
<1> HIDE DEF step, N, S, b
<1>5. PICK f : Recurses(f, S, b, N, step)
  BY <1>1, <1>2, BoundedRecursion
<1>6. f \in [0..N -> S] /\ f[0] = <<>> /\ \A n \in 1..N : f[n] = f[n - 1] \o ForAgent(M[n], a)
  <2> SUFFICES ASSUME NEW n \in 1..N PROVE f[n] = f[n - 1] \o ForAgent(M[n], a)
    BY <1>5, Zenon DEF Recurses, b
  <2>1. n - 1 \in 0..N
    BY <1>1
  <2>2. f[n - 1] \in S
    BY <2>1, <1>5 DEF Recurses
  <2> QED
    BY <1>4, <1>5, <2>2, Zenon DEF Recurses
<1>7. f = Body(f)
  <2>1. \A n \in 0..N : f[n] = Body(f)[n]
    BY <1>1, <1>6
  <2>2. DOMAIN f = 0..N /\ f = [n \in DOMAIN f |-> f[n]]
    BY <1>6
  <2>3. Body(f) = [n \in 0..N |-> Body(f)[n]]
    OBVIOUS
  <2> HIDE DEF Body
  <2> QED
    BY <2>1, <2>2, <2>3
<1> HIDE DEF Body
<1>8. Parts(M, a) = Body(Parts(M, a))
  BY <1>3, <1>7
<1> DEFINE p == Parts(M, a)
           T == {n \in Nat : n <= N => p[n] \in S}
<1>9. p[0] = <<>> /\ \A n \in 1..N : p[n] = p[n - 1] \o ForAgent(M[n], a)
  BY <1>1, <1>8 DEF Body
<1>10. \A n \in 1..N : ForAgent(M[n], a) \in S
  BY ForAgentType DEF N, S
<1> HIDE DEF p
<1>11. 0 \in T
  BY <1>1, <1>9 DEF b
<1>12. \A n \in Nat : n \in T => n + 1 \in T
  <2> SUFFICES ASSUME NEW n \in Nat, n \in T, n + 1 <= N PROVE p[n + 1] \in S
    OBVIOUS
  <2>1. n + 1 \in 1..N /\ (n + 1) - 1 = n /\ p[n] \in S
    BY <1>1
  <2>2. p[n + 1] = p[n] \o ForAgent(M[n + 1], a)
    BY <2>1, <1>9, Zenon
  <2> QED
    BY <2>1, <2>2, <1>10 DEF S
<1> HIDE DEF T
<1>13. N \in T
  BY <1>1, <1>11, <1>12, Induction, Zenon
<1> QED
  BY <1>13, <1>1 DEF T, p, S, N

\* The messages are well formed.
LEMMA MessageFacts ==
  /\ \A r \in RequestId, P \in SUBSET Instance :
       LogsRequest(r, P) \in Message /\ LogsRequestAccepted(r, P) \in Message
  /\ \A r \in RequestId : LogsCancelRequest(r) \in Message
  /\ \A r \in RequestId, i \in Instance : LogsStopResponse(r, i) \in Message
  /\ \A W \in SUBSET Instance : UpdateState(W) \in Message
  /\ \A a \in Agent : AgentGone(a) \in Message
  /\ \A c \in Cli : Goodbye(c) \in Message
  /\ ServerGone \in Message
  BY DEF Message, LogsRequest, LogsRequestAccepted, LogsCancelRequest, LogsStopResponse, UpdateState,
         AgentGone, Goodbye

\* And what they are made of.
LEMMA MessageParts ==
  ASSUME NEW m \in Message
  PROVE  /\ m.kind = "LogsRequest" => m.request \in RequestId /\ m.instances \in SUBSET Instance
         /\ m.kind = "LogsCancelRequest" => m.request \in RequestId
         /\ m.kind = "AgentGone" => m = AgentGone(m.agent)
         /\ m.kind = "Goodbye" => m = Goodbye(m.cli)
  BY DEF Message, ServerGone, AgentGone, Goodbye

\* Sets of messages are sent one after the other.
LEMMA SentTypes ==
  /\ \A R \in SUBSET RequestId : Cancels(R) \subseteq Seq(Message)
  /\ \A r \in RequestId : \A P \in SUBSET Instance : \A M \in Stops(r, P) :
       M \in Seq(Message) /\ \A k \in 1..Len(M) : M[k].kind = "LogsStopResponse"
  /\ \A D \in SUBSET (RequestId \X Instance) :
       Orders({LogsStopResponse(d[1], d[2]) : d \in D}) \subseteq Seq(Message)
<1>0. IsFiniteSet(RequestId) /\ IsFiniteSet(Instance)
  BY LogCampaignsAssumption DEF LogCampaignsAssumption
<1>1. ASSUME NEW S, NEW f \in [S -> Message], IsFiniteSet(S)
      PROVE  Orders(Range(f)) \subseteq Seq(Range(f)) /\ Range(f) \subseteq Message
  <2>1. IsFiniteSet(Range(f))
    BY <1>1, FiniteRange
  <2> QED
    BY <2>1, OrderedSet, Zenon DEF Orders, Range
<1>2. ASSUME NEW R \in SUBSET RequestId PROVE Cancels(R) \subseteq Seq(Message)
  <2> DEFINE f == [r \in R |-> LogsCancelRequest(r)]
  <2>1. IsFiniteSet(R)
    BY <1>0, FS_Subset
  <2>2. f \in [R -> Message] /\ Cancels(R) = Orders(Range(f))
    BY MessageFacts, Zenon DEF Range, Cancels
  <2> HIDE DEF f
  <2> QED
    BY <1>1, <2>1, <2>2
<1>3. ASSUME NEW r \in RequestId, NEW P \in SUBSET Instance, NEW M \in Stops(r, P)
      PROVE  M \in Seq(Message) /\ \A k \in 1..Len(M) : M[k].kind = "LogsStopResponse"
  <2> DEFINE f == [i \in P |-> LogsStopResponse(r, i)]
  <2>1. IsFiniteSet(P)
    BY <1>0, FS_Subset
  <2>2. f \in [P -> Message] /\ Stops(r, P) = Orders(Range(f))
    BY MessageFacts DEF Range, Stops
  <2>3. \A m \in Range(f) : m.kind = "LogsStopResponse"
    BY DEF LogsStopResponse, Range
  <2> HIDE DEF f
  <2>4. M \in Seq(Range(f)) /\ Range(f) \subseteq Message
    BY <1>1, <2>1, <2>2
  <2> HIDE DEF Range
  <2> QED
    BY <2>3, <2>4
<1>4. ASSUME NEW D \in SUBSET (RequestId \X Instance)
      PROVE  Orders({LogsStopResponse(d[1], d[2]) : d \in D}) \subseteq Seq(Message)
  <2> DEFINE f == [d \in D |-> LogsStopResponse(d[1], d[2])]
  <2>1. IsFiniteSet(RequestId \X Instance)
    BY <1>0, FS_Product
  <2>2. IsFiniteSet(D)
    BY <2>1, FS_Subset
  <2>3. f \in [D -> Message] /\ {LogsStopResponse(d[1], d[2]) : d \in D} = Range(f)
    BY MessageFacts DEF Range
  <2> HIDE DEF f
  <2>4. Orders(Range(f)) \subseteq Seq(Message)
    BY <1>1, <2>2, <2>3
  <2> QED
    BY <2>3, <2>4, Zenon
<1> QED
  BY <1>2, <1>3, <1>4

\* Distribute puts messages into channels.
LEMMA DistributeType ==
  ASSUME TypeOK, NEW M \in Seq(Message), Distribute(M)
  PROVE  to_agent' \in [Agent -> Seq(Message)]
<1>1. to_agent \in [Agent -> Seq(Message)]
  BY DEF TypeOK
<1>2. \A a \in Agent : to_agent[a] \o Parts(M, a)[Len(M)] \in Seq(Message)
  BY <1>1, PartsType
<1> QED
  BY <1>1, <1>2 DEF Distribute

\* Send puts them into one of two channels.
LEMMA SendType ==
  ASSUME TypeOK, NEW a \in Agent, NEW M \in Seq(Message), Send(a, M)
  PROVE  to_server' \in Seq(Message) /\ unsent' \in [Agent -> Seq(Message)]
<1>1. to_server \in Seq(Message) /\ unsent \in [Agent -> Seq(Message)]
  BY DEF TypeOK
<1>2. to_server \o M \in Seq(Message) /\ unsent[a] \o M \in Seq(Message)
  BY <1>1
<1> QED
  BY <1>1, <1>2, Zenon DEF Send

\* What the server receives is a message.
LEMMA ReceivesType ==
  ASSUME TypeOK, NEW kind, Receives(kind)
  PROVE  /\ to_server # <<>> /\ Head(to_server) \in Message /\ Head(to_server).kind = kind
         /\ to_server' \in Seq(Message)
BY SMTT(30) DEF TypeOK, Receives

\* What the server does to its store.
LEMMA StoreShrinks ==
  ASSUME CampaignInv,
         HandleLogsCancelRequest \/ HandleUpdateState \/ HandleAgentGone \/ HandleGoodbye
  PROVE  /\ \A a \in Agent, q \in RequestId :
              log_campaign_store'.log_providers_store[a][q] \subseteq log_campaign_store.log_providers_store[a][q]
         /\ \A c \in Cli : log_campaign_store'.cli_log_request_id_store[c]
                           \subseteq log_campaign_store.cli_log_request_id_store[c]
         /\ \A a \in Agent : log_campaign_store'.agent_log_request_ids_store[a]
                             \subseteq log_campaign_store.agent_log_request_ids_store[a]
         /\ HandleAgentGone => \E b \in Agent :
              b = Head(to_server).agent /\ log_campaign_store'.agent_log_request_ids_store[b] = {}
         /\ HandleGoodbye => \E c \in Cli :
              c = Head(to_server).cli /\ log_campaign_store'.cli_log_request_id_store[c] = {}
<1> DEFINE s == log_campaign_store
           Shrunk == /\ \A a \in Agent, q \in RequestId :
                          s'.log_providers_store[a][q] \subseteq s.log_providers_store[a][q]
                     /\ \A c \in Cli : s'.cli_log_request_id_store[c] \subseteq s.cli_log_request_id_store[c]
                     /\ \A a \in Agent :
                          s'.agent_log_request_ids_store[a] \subseteq s.agent_log_request_ids_store[a]
<1>0. s \in Store
  BY Zenon DEF CampaignInv
<1>1. ASSUME NEW R, s' = RemoveFromIndexes(remove_requests_from_log_providers_store(s, R), R)
      PROVE  Shrunk
  <2>1. LET t == RemoveFromIndexes(remove_requests_from_log_providers_store(s, R), R)
        IN /\ \A c \in Cli : t.cli_log_request_id_store[c] = s.cli_log_request_id_store[c] \ R
           /\ \A a \in Agent : t.agent_log_request_ids_store[a] = s.agent_log_request_ids_store[a] \ R
           /\ \A a \in Agent, q \in RequestId :
                t.log_providers_store[a][q] = IF q \in R THEN {} ELSE s.log_providers_store[a][q]
    BY <1>0, ForgetStore, SMTT(30)
  <2> QED
    BY <1>1, <2>1
<1>2. CASE HandleLogsCancelRequest
  <2>1. PICK r \in RequestId : s' = remove_logs_request_id(s, r)
    BY <1>2 DEF HandleLogsCancelRequest
  <2>2. s' = RemoveFromIndexes(remove_requests_from_log_providers_store(s, {r}), {r})
    BY <2>1 DEF remove_logs_request_id
  <2>3. Shrunk
    BY <2>2, <1>1, Zenon
  <2>4. ~HandleAgentGone /\ ~HandleGoodbye
    BY <1>2, Zenon DEF HandleLogsCancelRequest, HandleAgentGone, HandleGoodbye, Receives
  <2> QED
    BY <2>3, <2>4, Zenon
<1>3. CASE HandleUpdateState
  <2>1. PICK W \in Update : s' = remove_collector_campaign_entries(s, {i.name : i \in desired \ W})
    BY <1>3, Zenon DEF HandleUpdateState
  <2> DEFINE R == UNION {s.workload_name_request_id_store[n] : n \in {i.name : i \in desired \ W}}
  <2>2. s' = RemoveFromIndexes(remove_requests_from_log_providers_store(s, R), R)
    BY <2>1 DEF remove_collector_campaign_entries
  <2> HIDE DEF R
  <2>3. Shrunk
    BY <2>2, <1>1, Zenon
  <2>4. ~HandleAgentGone /\ ~HandleGoodbye
    BY <1>3, Zenon DEF HandleUpdateState, HandleAgentGone, HandleGoodbye, Receives
  <2> QED
    BY <2>3, <2>4
<1>4. CASE HandleAgentGone
  <2>1. PICK b \in Agent : b = Head(to_server).agent /\ s' = remove_agent_log_campaign_entry(s, b)
    BY <1>4 DEF HandleAgentGone
  <2>2. LET t == remove_agent_log_campaign_entry(s, b)
            R == s.agent_log_request_ids_store[b]
        IN /\ t.cli_log_request_id_store = s.cli_log_request_id_store
           /\ \A a \in Agent : t.agent_log_request_ids_store[a] =
                IF a = b THEN {} ELSE s.agent_log_request_ids_store[a]
           /\ \A a \in Agent, q \in RequestId :
                t.log_providers_store[a][q] = IF q \in R \/ a = b THEN {} ELSE s.log_providers_store[a][q]
    BY <1>0, RemoveAgentStore, ZenonT(30)
  <2>3. Shrunk /\ s'.agent_log_request_ids_store[b] = {}
    BY <2>1, <2>2, Zenon
  <2>4. ~HandleGoodbye
    BY <1>4, Zenon DEF HandleAgentGone, HandleGoodbye, Receives
  <2> QED
    BY <2>1, <2>3, <2>4, Zenon
<1>5. CASE HandleGoodbye
  <2>1. PICK k \in Cli : k = Head(to_server).cli /\ s' = remove_cli_log_campaign_entry(s, k)
    BY <1>5 DEF HandleGoodbye
  <2>2. LET t == remove_cli_log_campaign_entry(s, k)
            R == s.cli_log_request_id_store[k]
        IN /\ t.agent_log_request_ids_store = s.agent_log_request_ids_store
           /\ \A c \in Cli : t.cli_log_request_id_store[c] = IF c = k THEN {} ELSE s.cli_log_request_id_store[c]
           /\ \A a \in Agent, q \in RequestId :
                t.log_providers_store[a][q] = IF q \in R THEN {} ELSE s.log_providers_store[a][q]
    BY <1>0, RemoveCliStore, Zenon
  <2>3. Shrunk /\ s'.cli_log_request_id_store[k] = {}
    BY <2>1, <2>2, ZenonT(30)
  <2>4. ~HandleAgentGone
    BY <1>5 DEF HandleAgentGone, HandleGoodbye, Receives
  <2> QED
    BY <2>1, <2>3, <2>4
<1> QED
  BY <1>2, <1>3, <1>4, <1>5

\* The store after a request: its collector is known from now on.
LEMMA StoreGrows ==
  ASSUME CampaignInv, HandleLogsRequest
  PROVE  LET r == Head(to_server).request
             s == log_campaign_store
         IN /\ r \in RequestId
            /\ \A a \in Agent, q \in RequestId : \A i \in s'.log_providers_store[a][q] :
                 i \in s.log_providers_store[a][q] \/ i.agent = a
            /\ \A c \in Cli, q \in RequestId : q \in s'.cli_log_request_id_store[c] =>
                 q \in s.cli_log_request_id_store[c] \/ (q = r /\ r \in CliRequestId /\ c = r.cli)
            /\ \A a \in Agent, q \in RequestId : q \in s'.agent_log_request_ids_store[a] =>
                 q \in s.agent_log_request_ids_store[a] \/ (q = r /\ r \notin CliRequestId /\ a = r.agent)
<1> DEFINE s == log_campaign_store
           P == Head(to_server).instances \cap desired
<1>1. PICK r \in RequestId :
        r = Head(to_server).request /\ s' = IF P = {} THEN s ELSE insert_log_campaign(s, r, P)
  BY DEF HandleLogsRequest
<1>2. P \in SUBSET Instance /\ s \in Store
  BY DEF CampaignInv
<1>3. CASE P = {}
  BY <1>1, <1>3
<1>4. CASE P # {}
  <2>1. s' = insert_log_campaign(s, r, P)
    BY <1>1, <1>4
  <2> HIDE DEF P
  <2>2. LET t == insert_log_campaign(s, r, P)
        IN /\ \A a \in Agent, q \in RequestId : \A i \in t.log_providers_store[a][q] :
                i \in s.log_providers_store[a][q] \/ i.agent = a
           /\ \A c \in Cli, q \in RequestId : q \in t.cli_log_request_id_store[c] <=>
                q \in s.cli_log_request_id_store[c] \/ (q = r /\ r \in CliRequestId /\ c = r.cli)
           /\ \A a \in Agent, q \in RequestId : q \in t.agent_log_request_ids_store[a] <=>
                q \in s.agent_log_request_ids_store[a] \/ (q = r /\ r \notin CliRequestId /\ a = r.agent)
    BY <1>2, InsertStore
  <2> QED
    BY <1>1, <2>1, <2>2
<1> QED
  BY <1>3, <1>4

\* Types: the server's steps.
LEMMA ServerTypes ==
  ASSUME TypeOK, CampaignInv, CampaignInv', ServerStep
  PROVE  TypeOK'
<1> DEFINE s == log_campaign_store
<1>0. TypeOK' <=>
        /\ to_server' \in Seq(Message) /\ to_agent' \in [Agent -> Seq(Message)]
        /\ late' \subseteq AgentRequestId /\ swept' \subseteq AgentRequestId
        /\ \A a \in Agent, r \in RequestId : \A i \in s'.log_providers_store[a][r] : i.agent = a
  BY Zenon DEF TypeOK, CampaignInv, ServerStep, agentVars, HandleLogsRequest, HandleLogsCancelRequest,
         HandleUpdateState, HandleAgentGone, HandleGoodbye, HandleLogsStopResponse
<1>1. \E k : Receives(k)
  BY Zenon DEF ServerStep, HandleLogsRequest, HandleLogsCancelRequest,
         HandleUpdateState, HandleAgentGone, HandleGoodbye, HandleLogsStopResponse
<1>2. to_server' \in Seq(Message) /\ Head(to_server) \in Message
  BY <1>1, ReceivesType
<1>3. \A a \in Agent, r \in RequestId : \A i \in s.log_providers_store[a][r] : i.agent = a
  BY DEF TypeOK
<1>4. late \subseteq AgentRequestId /\ swept \subseteq AgentRequestId
  BY DEF TypeOK
<1>5. CASE HandleLogsRequest
  <2>1. \A a \in Agent, r \in RequestId : \A i \in s'.log_providers_store[a][r] : i.agent = a
    BY <1>3, <1>5, StoreGrows, SMTT(30)
  <2> DEFINE P == Head(to_server).instances \cap desired
             M(r) == (IF P = {} THEN <<>> ELSE <<LogsRequest(r, P)>>) \o <<LogsRequestAccepted(r, P)>>
  <2>2. PICK r \in RequestId :
          /\ Distribute(M(r))
          /\ IF P # {} /\ r \in AgentRequestId
             THEN /\ late' = (late \ {r}) \cup ({r} \cap {q \in AgentRequestId : collector(q) \notin desired})
                  /\ swept' = swept \ {r}
             ELSE UNCHANGED <<late, swept>>
    BY <1>5 DEF HandleLogsRequest
  <2>3. late' \subseteq AgentRequestId /\ swept' \subseteq AgentRequestId
    BY <1>4, <2>2
  <2>4. M(r) \in Seq(Message)
    <3>1. P \in SUBSET Instance
      BY DEF CampaignInv
    <3> HIDE DEF P
    <3>2. LogsRequest(r, P) \in Message /\ LogsRequestAccepted(r, P) \in Message
      BY <3>1, MessageFacts
    <3> QED
      BY <3>2
  <2> HIDE DEF M
  <2>5. to_agent' \in [Agent -> Seq(Message)]
    BY <2>2, <2>4, DistributeType
  <2> QED
    BY <1>0, <1>2, <2>1, <2>3, <2>5
<1>6. CASE HandleLogsCancelRequest \/ HandleUpdateState \/ HandleAgentGone \/ HandleGoodbye
  <2>1. \A a \in Agent, r \in RequestId : \A i \in s'.log_providers_store[a][r] : i.agent = a
    BY <1>3, <1>6, StoreShrinks
  <2>2. s \in Store
    BY DEF CampaignInv
  <2>3. late' \subseteq AgentRequestId /\ swept' \subseteq AgentRequestId
    <3>1. CASE HandleAgentGone
      <4>1. PICK b \in Agent :
              swept' = swept \cup
                ((UNION {s.workload_name_request_id_store[r.workload] : r \in s.agent_log_request_ids_store[b]})
                 \ s.agent_log_request_ids_store[b])
        BY <3>1 DEF HandleAgentGone
      <4>2. \A r \in s.agent_log_request_ids_store[b] : r.workload \in Name
        BY <2>2 DEF Store, AgentRequestId
      <4>3. \A r \in s.agent_log_request_ids_store[b] :
              s.workload_name_request_id_store[r.workload] \subseteq AgentRequestId
        BY <2>2, <4>2 DEF Store
      <4> QED
        BY <1>4, <3>1, <4>1, <4>3 DEF HandleAgentGone
    <3>2. CASE ~HandleAgentGone
      BY <1>4, <1>6, <3>2 DEF HandleLogsCancelRequest, HandleUpdateState, HandleGoodbye
    <3> QED
      BY <3>1, <3>2
  <2>4. \E M \in Seq(Message) : Distribute(M)
    <3>1. CASE HandleLogsCancelRequest
      <4>1. PICK r \in RequestId : Distribute(<<LogsCancelRequest(r)>>)
        BY <3>1 DEF HandleLogsCancelRequest
      <4>2. <<LogsCancelRequest(r)>> \in Seq(Message)
        BY MessageFacts
      <4> QED
        BY <4>1, <4>2, Zenon
    <3>2. CASE HandleUpdateState
      <4>1. PICK W \in Update : \E M \in
              Cancels(UNION {s.workload_name_request_id_store[n] : n \in {i.name : i \in desired \ W}}) : Distribute(M)
        BY <3>2, Zenon DEF HandleUpdateState
      <4> DEFINE N == {i.name : i \in desired \ W}
                 R == UNION {s.workload_name_request_id_store[n] : n \in N}
      <4>2. N \subseteq Name
        BY DEF CampaignInv, Instance
      <4>3. R \in SUBSET RequestId
        BY <2>2, <4>2 DEF Store, RequestId
      <4> HIDE DEF R
      <4>4. Cancels(R) \subseteq Seq(Message)
        BY <4>3, SentTypes
      <4> QED
        BY <4>1, <4>4 DEF R
    <3>3. CASE HandleAgentGone
      <4> DEFINE D(b) == disconnected_log_providers(s, b)
                 B(b) == Orders({LogsStopResponse(d[1], d[2]) : d \in D(b)})
      <4>1. PICK b \in Agent : \E M \in Cancels(s.agent_log_request_ids_store[b]), L \in B(b) : Distribute(M \o L)
        BY <3>3, Zenon DEF HandleAgentGone
      <4>2. s.agent_log_request_ids_store[b] \in SUBSET RequestId
        BY <2>2 DEF Store, RequestId
      <4>3. D(b) \in SUBSET (RequestId \X Instance)
        BY DEF disconnected_log_providers
      <4> HIDE DEF D
      <4>4. Cancels(s.agent_log_request_ids_store[b]) \subseteq Seq(Message) /\ B(b) \subseteq Seq(Message)
        BY <4>2, <4>3, SentTypes
      <4> HIDE DEF B
      <4>5. PICK M \in Seq(Message), L \in Seq(Message) : Distribute(M \o L)
        BY <4>1, <4>4
      <4>6. M \o L \in Seq(Message)
        OBVIOUS
      <4> QED
        BY <4>5, <4>6, Zenon
    <3>4. CASE HandleGoodbye
      <4>1. PICK k \in Cli : \E M \in Cancels(s.cli_log_request_id_store[k]) : Distribute(M)
        BY <3>4 DEF HandleGoodbye
      <4>2. s.cli_log_request_id_store[k] \in SUBSET RequestId
        BY <2>2 DEF Store, RequestId
      <4>3. Cancels(s.cli_log_request_id_store[k]) \subseteq Seq(Message)
        BY <4>2, SentTypes
      <4> QED
        BY <4>1, <4>3
    <3> QED
      BY <1>6, <3>1, <3>2, <3>3, <3>4
  <2>5. to_agent' \in [Agent -> Seq(Message)]
    BY <2>4, DistributeType
  <2> QED
    BY <1>0, <1>2, <2>1, <2>3, <2>5
<1>7. CASE HandleLogsStopResponse
  <2>1. <<Head(to_server)>> \in Seq(Message)
    BY <1>2
  <2>2. Distribute(<<Head(to_server)>>) /\ UNCHANGED serverVars
    BY <1>7 DEF HandleLogsStopResponse
  <2>3. to_agent' \in [Agent -> Seq(Message)]
    BY <2>1, <2>2, DistributeType, Zenon
  <2> QED
    BY <1>0, <1>2, <1>3, <1>4, <2>2, <2>3 DEF serverVars
<1> QED
  BY <1>5, <1>6, <1>7 DEF ServerStep

\* Types: the steps of the agents, the clients and the connections.
LEMMA OtherTypes ==
  ASSUME TypeOK, CampaignInv, CampaignInv', Next, ~ServerStep
  PROVE  TypeOK'
<1>0. /\ to_server \in Seq(Message) /\ to_agent \in [Agent -> Seq(Message)]
      /\ unsent \in [Agent -> Seq(Message)] /\ alive \subseteq Instance /\ connected \subseteq Agent
      /\ desired \subseteq Instance
      /\ subscription_store \in [Agent -> SUBSET RequestId]
      /\ tasks \in [Agent -> [RequestId -> {None} \cup SUBSET Instance]]
      /\ cli \in [Cli -> [phase : {"new", "request", "listen", "gone", "aborted"}, waits : SUBSET Instance]]
  BY Zenon DEF TypeOK
<1>1. UNCHANGED serverVars =>
        (TypeOK' <=>
           /\ to_server' \in Seq(Message) /\ to_agent' \in [Agent -> Seq(Message)]
           /\ unsent' \in [Agent -> Seq(Message)] /\ alive' \subseteq Instance /\ connected' \subseteq Agent
           /\ subscription_store' \in [Agent -> SUBSET RequestId]
           /\ tasks' \in [Agent -> [RequestId -> {None} \cup SUBSET Instance]]
           /\ cli' \in [Cli -> [phase : {"new", "request", "listen", "gone", "aborted"}, waits : SUBSET Instance]])
  BY Zenon DEF TypeOK, serverVars
<1>2. ASSUME NEW a \in Agent, execute_from_server_command(a) PROVE TypeOK'
  <2> DEFINE m == Head(to_agent[a])
  <2>1. /\ to_agent[a] \in Seq(Message) /\ to_agent[a] # <<>> /\ to_agent' = [to_agent EXCEPT ![a] = Tail(@)]
        /\ UNCHANGED <<serverVars, alive, connected, cli>>
    BY <1>0, <1>2 DEF execute_from_server_command
  <2>2. m \in Message /\ to_agent' \in [Agent -> Seq(Message)]
    BY <1>0, <2>1
  <2> HIDE DEF m
  <2>3. CASE m.kind = "LogsRequest" /\ HandleLogsRequestOnAgent(a, m.request, m.instances)
    <3>1. m.request \in RequestId /\ m.instances \in SUBSET Instance
      BY <2>2, <2>3, MessageParts
    <3>2. Stops(m.request, m.instances \cap alive) \subseteq Seq(Message)
      BY <3>1, SentTypes
    <3>3. to_server' \in Seq(Message) /\ unsent' \in [Agent -> Seq(Message)]
      BY <1>0, <2>3, <3>2, SendType, Zenon DEF HandleLogsRequestOnAgent
    <3>4. subscription_store' \in [Agent -> SUBSET RequestId]
      BY <1>0, <2>3, <3>1, Zenon DEF HandleLogsRequestOnAgent
    <3>5. tasks' \in [Agent -> [RequestId -> {None} \cup SUBSET Instance]]
      <4>1. \E v \in {None} \cup SUBSET Instance : tasks' = [tasks EXCEPT ![a][m.request] = v]
        <5>1. m.instances \cap alive \in SUBSET Instance
          BY <3>1
        <5> QED
          BY <2>3, <5>1 DEF HandleLogsRequestOnAgent
      <4> QED
        BY <1>0, <3>1, <4>1
    <3> QED
      BY <1>0, <1>1, <2>1, <2>2, <3>3, <3>4, <3>5
  <2>4. ASSUME NEW R, delete_subscriptions(a, R), UNCHANGED <<to_server, unsent, unserved>>
        PROVE  TypeOK'
    <3>1. subscription_store' \in [Agent -> SUBSET RequestId]
      BY <1>0, <2>4 DEF delete_subscriptions
    <3>2. tasks' \in [Agent -> [RequestId -> {None} \cup SUBSET Instance]]
      <4> DEFINE g == [r \in RequestId |-> IF r \in R \cap subscription_store[a] THEN None ELSE tasks[a][r]]
      <4>1. tasks[a] \in [RequestId -> {None} \cup SUBSET Instance]
        BY <1>0
      <4>2. g \in [RequestId -> {None} \cup SUBSET Instance]
        BY <4>1
      <4>3. tasks' = [tasks EXCEPT ![a] = g]
        BY <2>4 DEF delete_subscriptions
      <4> HIDE DEF g
      <4> QED
        BY <1>0, <4>2, <4>3
    <3> QED
      BY <1>0, <1>1, <2>1, <2>2, <2>4, <3>1, <3>2
  <2> QED
    BY <1>2, <2>3, <2>4 DEF execute_from_server_command, m
<1>3. ASSUME NEW a \in Agent, Connect(a) PROVE TypeOK'
  <2>1. to_server' \in Seq(Message) /\ unsent' \in [Agent -> Seq(Message)]
    BY <1>0, <1>3 DEF Connect
  <2> QED
    BY <1>0, <1>1, <1>3, <2>1 DEF Connect, agentVars
<1>4. ASSUME NEW a \in Agent, NEW r \in RequestId, NEW i \in Instance, LogEnds(a, r, i) PROVE TypeOK'
  <2>1. <<LogsStopResponse(r, i)>> \in Seq(Message)
    BY MessageFacts
  <2>2. to_server' \in Seq(Message) /\ unsent' \in [Agent -> Seq(Message)]
    BY <1>4, <2>1, SendType, Zenon DEF LogEnds
  <2>3. tasks[a][r] \in SUBSET Instance
    BY <1>0, <1>4 DEF LogEnds, Reads
  <2>4. tasks' \in [Agent -> [RequestId -> {None} \cup SUBSET Instance]]
    BY <1>0, <1>4, <2>3 DEF LogEnds
  <2> QED
    BY <1>0, <1>1, <1>4, <2>2, <2>4 DEF LogEnds
<1>5. ASSUME NEW a \in Agent, NEW r \in RequestId, TaskEnds(a, r) PROVE TypeOK'
  <2>1. tasks' \in [Agent -> [RequestId -> {None} \cup SUBSET Instance]]
    BY <1>0, <1>5 DEF TaskEnds
  <2>2. subscription_store' \in [Agent -> SUBSET RequestId]
    BY <1>0, <1>5 DEF TaskEnds
  <2> QED
    BY <1>0, <1>1, <1>5, <2>1, <2>2 DEF TaskEnds, linkVars
<1>6. ASSUME NEW a \in Agent, Drop(a) PROVE TypeOK'
  <2>1. to_server' \in Seq(Message)
    BY <1>0, <1>6, MessageFacts DEF Drop
  <2>2. PICK n \in 0..Len(to_agent[a]) :
          to_agent' = [to_agent EXCEPT ![a] = Append(SubSeq(@, 1, n), ServerGone)]
    BY <1>6, Zenon DEF Drop
  <2>3. SubSeq(to_agent[a], 1, n) \in Seq(Message)
    BY <1>0
  <2>4. Append(SubSeq(to_agent[a], 1, n), ServerGone) \in Seq(Message)
    BY <2>3, MessageFacts
  <2>5. to_agent' \in [Agent -> Seq(Message)]
    BY <1>0, <2>2, <2>4
  <2> QED
    BY <1>0, <1>1, <1>6, <2>1, <2>5 DEF Drop, agentVars
<1>7. ASSUME NEW i \in Instance, WorkloadStep(i) PROVE TypeOK'
  BY <1>0, <1>1, <1>7 DEF WorkloadStep, linkVars
<1>8. ASSUME NEW i \in Instance, CollectorStep(i) PROVE TypeOK'
  <2>1. i.agent \in Agent
    BY DEF Instance
  <2>2. Wanted \subseteq SUBSET Instance
    BY LogCampaignsAssumption DEF LogCampaignsAssumption
  <2>3. \E r \in RequestId :
          (\E P \in Wanted : Send(i.agent, <<LogsRequest(r, P)>>)) \/ Send(i.agent, <<LogsCancelRequest(r)>>)
    BY <1>8 DEF CollectorStep, RequestId
  <2>4. \E M \in Seq(Message) : Send(i.agent, M)
    <3>1. \A r \in RequestId : /\ <<LogsCancelRequest(r)>> \in Seq(Message)
                               /\ \A P \in Wanted : <<LogsRequest(r, P)>> \in Seq(Message)
      BY <2>2, MessageFacts
    <3> QED
      BY <2>3, <3>1, Zenon
  <2>5. to_server' \in Seq(Message) /\ unsent' \in [Agent -> Seq(Message)]
    BY <2>1, <2>4, SendType
  <2> QED
    BY <1>0, <1>1, <1>8, <2>5 DEF CollectorStep, agentVars
<1>9. RequestUpdate => TypeOK'
  <2> SUFFICES ASSUME RequestUpdate PROVE TypeOK'
    OBVIOUS
  <2>1. PICK W \in Update : to_server' = Append(to_server, UpdateState(W))
    BY Zenon DEF RequestUpdate
  <2>2. UpdateState(W) \in Message
    BY LogCampaignsAssumption, MessageFacts DEF LogCampaignsAssumption
  <2>3. to_server' \in Seq(Message)
    BY <1>0, <2>1, <2>2
  <2> QED
    BY <1>0, <1>1, <2>3 DEF RequestUpdate, agentVars, linkVars
<1>10. ASSUME NEW c \in Cli, CliTask(c) \/ send_logs_request_for_workloads(c) \/ Interrupt(c)
       PROVE  TypeOK'
  <2>1. UNCHANGED <<serverVars, agentVars, linkVars>>
    BY <1>10 DEF CliTask, get_logs_accepted_response, listen_for_workload_logs,
       send_logs_request_for_workloads, Interrupt
  <2>2. CliRequest(c) \in RequestId
    <3>1. PICK d \in Id : TRUE
      BY LogCampaignsAssumption DEF LogCampaignsAssumption
    <3>2. [cli |-> c, id |-> d] \in CliRequestId /\ [cli |-> c, id |-> d].cli = c
      BY DEF CliRequestId
    <3> QED
      BY <3>2, Zenon DEF CliRequest, RequestId
  <2>3. to_server' \in Seq(Message)
    <3>1. Goodbye(c) \in Message /\ LogsCancelRequest(CliRequest(c)) \in Message
      BY <2>2, MessageFacts
    <3>2. \A P \in Wanted : LogsRequest(CliRequest(c), P) \in Message
      BY <2>2, MessageFacts, LogCampaignsAssumption DEF LogCampaignsAssumption
    <3>3. \/ UNCHANGED to_server
          \/ to_server' = to_server \o <<>> \o <<Goodbye(c)>>
          \/ to_server' = to_server \o <<LogsCancelRequest(CliRequest(c))>> \o <<Goodbye(c)>>
          \/ \E P \in Wanted : to_server' = Append(to_server, LogsRequest(CliRequest(c), P))
      BY <1>10 DEF CliTask, get_logs_accepted_response, listen_for_workload_logs,
         send_logs_request_for_workloads, Interrupt, Leave, Abort
    <3>4. /\ to_server \o <<>> \o <<Goodbye(c)>> \in Seq(Message)
          /\ to_server \o <<LogsCancelRequest(CliRequest(c))>> \o <<Goodbye(c)>> \in Seq(Message)
      BY <1>0, <3>1
    <3>5. \A P \in Wanted : Append(to_server, LogsRequest(CliRequest(c), P)) \in Seq(Message)
      BY <1>0, <3>2
    <3> QED
      BY <1>0, <3>3, <3>4, <3>5, Zenon
  <2>4. cli' \in [Cli -> [phase : {"new", "request", "listen", "gone", "aborted"}, waits : SUBSET Instance]]
    <3> DEFINE Phase == {"new", "request", "listen", "gone", "aborted"}
    <3>1. Wanted \subseteq SUBSET Instance
      BY LogCampaignsAssumption DEF LogCampaignsAssumption
    <3>2. \/ \E x \in {"gone", "aborted"} : cli' = [cli EXCEPT ![c] = [phase |-> x, waits |-> {}]]
          \/ \E P \in Wanted : cli' = [cli EXCEPT ![c] = [phase |-> "request", waits |-> P]]
          \/ cli' = [cli EXCEPT ![c].phase = "listen"]
          \/ \E W : cli' = [cli EXCEPT ![c].waits = cli[c].waits \ W]
      BY <1>10, Zenon DEF CliTask, get_logs_accepted_response, listen_for_workload_logs,
         send_logs_request_for_workloads, Interrupt, Leave, Abort
    <3>3. cli[c] \in [phase : Phase, waits : SUBSET Instance]
      BY <1>0
    <3>4. \E v \in [phase : Phase, waits : SUBSET Instance] : cli' = [cli EXCEPT ![c] = v]
      <4>1. CASE \E x \in {"gone", "aborted"} : cli' = [cli EXCEPT ![c] = [phase |-> x, waits |-> {}]]
        <5>1. \A x \in {"gone", "aborted"} : [phase |-> x, waits |-> {}] \in [phase : Phase, waits : SUBSET Instance]
          OBVIOUS
        <5> QED
          BY <4>1, <5>1, Zenon
      <4>2. CASE \E P \in Wanted : cli' = [cli EXCEPT ![c] = [phase |-> "request", waits |-> P]]
        <5>1. \A P \in Wanted : [phase |-> "request", waits |-> P] \in [phase : Phase, waits : SUBSET Instance]
          BY <3>1
        <5> QED
          BY <4>2, <5>1, Zenon
      <4>3. CASE cli' = [cli EXCEPT ![c].phase = "listen"]
        <5>1. [cli[c] EXCEPT !.phase = "listen"] \in [phase : Phase, waits : SUBSET Instance]
          BY <3>3
        <5>2. cli' = [cli EXCEPT ![c] = [cli[c] EXCEPT !.phase = "listen"]]
          BY <4>3
        <5> QED
          BY <5>1, <5>2, Zenon
      <4>4. CASE \E W : cli' = [cli EXCEPT ![c].waits = cli[c].waits \ W]
        <5>1. PICK W : cli' = [cli EXCEPT ![c].waits = cli[c].waits \ W]
          BY <4>4, Zenon
        <5>2. [cli[c] EXCEPT !.waits = cli[c].waits \ W] \in [phase : Phase, waits : SUBSET Instance]
          BY <3>3
        <5>3. cli' = [cli EXCEPT ![c] = [cli[c] EXCEPT !.waits = cli[c].waits \ W]]
          BY <5>1
        <5> QED
          BY <5>2, <5>3, Zenon
      <4> QED
        BY <3>2, <4>1, <4>2, <4>3, <4>4
    <3> QED
      BY <1>0, <3>4
  <2> QED
    BY <1>0, <1>1, <2>1, <2>3, <2>4 DEF agentVars, linkVars
<1> QED
  BY <1>0, <1>2, <1>3, <1>4, <1>5, <1>6, <1>7, <1>8, <1>9, <1>10 DEF Next, LogTask

-----------------------------------------------------------------------------
(* Collectors and their ends *)

\* What tells the server that the collector of a request has gone, and whether it
\* is still there.
End(r) == IF r \in CliRequestId THEN Goodbye(r.cli) ELSE AgentGone(r.agent)
Present(r) == IF r \in CliRequestId THEN cli[r.cli].phase # "gone" ELSE r.agent \in connected

\* The end of a collector comes after its requests.
RequestsInOrder ==
  \A k \in 1..Len(to_server), r \in RequestId :
    to_server[k].kind = "LogsRequest" /\ to_server[k].request = r =>
      Present(r) \/ \E j \in 1..Len(to_server) : j > k /\ to_server[j] = End(r)

\* What waits for an agent's connection are requests of its own workloads.
UnsentAreOwn ==
  \A a \in Agent : \A k \in 1..Len(unsent[a]) : unsent[a][k].kind = "LogsRequest" =>
    unsent[a][k].request \in AgentRequestId /\ unsent[a][k].request.agent = a

\* A client's request is in the index under that client.
CliIndexed == \A k \in Cli : \A q \in log_campaign_store.cli_log_request_id_store[k] : q.cli = k

PresenceInv ==
  /\ TypeOK /\ CampaignInv
  /\ RequestsInOrder /\ UnsentAreOwn /\ CliIndexed /\ CollectorsArePresent

Covered(r) == Present(r) \/ End(r) \in Range(to_server)

\* CollectorsArePresent in these words.
LEMMA CoveredFact == CollectorsArePresent <=> \A r \in RequestId : Known(r) => Covered(r)
BY DEF CollectorsArePresent, Covered, Present, End

\* More messages for the server: the order is kept if who leaves says so with them.
LEMMA AppendKeeps ==
  ASSUME PresenceInv, NEW M \in Seq(Message), to_server' = to_server \o M,
         \A r \in RequestId : Present(r) => Present(r)' \/ End(r) \in Range(M),
         \A k \in 1..Len(M), r \in RequestId : M[k].kind = "LogsRequest" /\ M[k].request = r => Present(r)'
  PROVE  /\ RequestsInOrder'
         /\ \A r \in RequestId : Covered(r) => Covered(r)'
<1> DEFINE s == to_server
<1>1. s \in Seq(Message)
  BY Zenon DEF PresenceInv, TypeOK
<1>2. /\ Len(s') = Len(s) + Len(M) /\ Len(s) \in Nat /\ Len(M) \in Nat
      /\ \A k \in 1..Len(s) : s'[k] = s[k] /\ k \in 1..Len(s')
      /\ \A k \in 1..Len(M) : s'[Len(s) + k] = M[k] /\ Len(s) + k \in 1..Len(s')
      /\ \A k \in 1..Len(s') : k \in 1..Len(s) \/ \E j \in 1..Len(M) : k = Len(s) + j
      /\ DOMAIN s' = 1..Len(s') /\ DOMAIN s = 1..Len(s) /\ DOMAIN M = 1..Len(M)
  <2>1. /\ Len(s') = Len(s) + Len(M) /\ Len(s) \in Nat /\ Len(M) \in Nat
        /\ \A k \in 1..Len(s) : s'[k] = s[k] /\ k \in 1..Len(s')
        /\ \A k \in 1..Len(M) : s'[Len(s) + k] = M[k] /\ Len(s) + k \in 1..Len(s')
        /\ DOMAIN s' = 1..Len(s') /\ DOMAIN s = 1..Len(s) /\ DOMAIN M = 1..Len(M)
    BY <1>1
  <2>2. ASSUME NEW k \in 1..Len(s'), k \notin 1..Len(s)
        PROVE  \E j \in 1..Len(M) : k = Len(s) + j
    <3>1. k - Len(s) \in 1..Len(M) /\ k = Len(s) + (k - Len(s))
      BY <2>1, <2>2, SMTT(30)
    <3> QED
      BY <3>1
  <2> QED
    BY <2>1, <2>2
<1>3. \A r : End(r)' = End(r)
  BY Zenon DEF End
<1>4. RequestsInOrder'
  <2> SUFFICES ASSUME NEW k \in 1..Len(s'), NEW r \in RequestId, s'[k].kind = "LogsRequest", s'[k].request = r
               PROVE  Present(r)' \/ \E j \in 1..Len(s') : j > k /\ s'[j] = End(r)
    BY <1>3, Zenon DEF RequestsInOrder
  <2>1. CASE k \in 1..Len(s)
    <3>1. s[k].kind = "LogsRequest" /\ s[k].request = r
      BY <1>2, <2>1, Zenon
    <3>2. Present(r) \/ \E j \in 1..Len(s) : j > k /\ s[j] = End(r)
      BY <2>1, <3>1, Zenon DEF PresenceInv, RequestsInOrder
    <3>3. CASE \E j \in 1..Len(s) : j > k /\ s[j] = End(r)
      BY <1>2, <3>3
    <3>4. CASE End(r) \in Range(M)
      <4>1. PICK j \in 1..Len(M) : M[j] = End(r)
        BY <1>2, <3>4 DEF Range
      <4>2. Len(s) + j \in 1..Len(s') /\ s'[Len(s) + j] = End(r) /\ Len(s) + j > k
        BY <1>2, <2>1, <4>1
      <4> QED
        BY <4>2
    <3> QED
      BY <3>2, <3>3, <3>4, Zenon
  <2>2. CASE \E j \in 1..Len(M) : k = Len(s) + j
    <3>1. PICK j \in 1..Len(M) : k = Len(s) + j
      BY <2>2
    <3>2. M[j].kind = "LogsRequest" /\ M[j].request = r
      BY <1>2, <3>1, Zenon
    <3> QED
      BY <3>2
  <2> QED
    BY <1>2, <2>1, <2>2, Zenon
<1>5. ASSUME NEW r \in RequestId, Covered(r) PROVE Covered(r)'
  <2>1. ASSUME End(r) \in Range(s) PROVE End(r) \in Range(s')
    <3>1. PICK j \in 1..Len(s) : s[j] = End(r)
      BY <1>2, <2>1 DEF Range
    <3> QED
      BY <1>2, <3>1, Zenon DEF Range
  <2>2. ASSUME End(r) \in Range(M) PROVE End(r) \in Range(s')
    <3>1. PICK j \in 1..Len(M) : M[j] = End(r)
      BY <1>2, <2>2 DEF Range
    <3>2. s'[Len(s) + j] = End(r) /\ Len(s) + j \in DOMAIN s'
      BY <1>2, <3>1
    <3> QED
      BY <3>2 DEF Range
  <2> QED
    BY <1>3, <1>5, <2>1, <2>2 DEF Covered
<1> QED
  BY <1>4, <1>5, Zenon

\* The server takes a message: a request is covered when it is taken.
LEMMA TailKeeps ==
  ASSUME PresenceInv, NEW kind, Receives(kind), UNCHANGED <<cli, connected>>
  PROVE  /\ RequestsInOrder'
         /\ \A r \in RequestId : Covered(r) => Covered(r)' \/ End(r) = Head(to_server)
         /\ \A r \in RequestId : kind = "LogsRequest" /\ r = Head(to_server).request => Covered(r)'
<1> DEFINE s == to_server
<1>1. s \in Seq(Message) /\ s # <<>> /\ s' = Tail(s) /\ s[1].kind = kind /\ s[1] = Head(s)
  BY DEF PresenceInv, TypeOK, Receives
<1>2. /\ Len(s') = Len(s) - 1 /\ Len(s) \in Nat \ {0}
      /\ \A k \in 1..Len(s') : s'[k] = s[k + 1] /\ k + 1 \in 1..Len(s)
      /\ DOMAIN s' = 1..Len(s') /\ DOMAIN s = 1..Len(s)
  BY <1>1
<1>3. \A k \in 1..Len(s) : k > 1 => k - 1 \in 1..Len(s') /\ s'[k - 1] = s[k]
  <2> SUFFICES ASSUME NEW k \in 1..Len(s), k > 1 PROVE k - 1 \in 1..Len(s') /\ s'[k - 1] = s[k]
    OBVIOUS
  <2>1. k - 1 \in 1..Len(s') /\ (k - 1) + 1 = k
    BY <1>2
  <2> QED
    BY <1>2, <2>1
<1>4. \A r : End(r)' = End(r) /\ (Present(r)' <=> Present(r))
  BY DEF End, Present
<1>5. RequestsInOrder'
  <2> SUFFICES ASSUME NEW k \in 1..Len(s'), NEW r \in RequestId, s'[k].kind = "LogsRequest", s'[k].request = r
               PROVE  Present(r) \/ \E j \in 1..Len(s') : j > k /\ s'[j] = End(r)
    BY <1>4 DEF RequestsInOrder
  <2>1. k + 1 \in 1..Len(s) /\ s[k + 1].kind = "LogsRequest" /\ s[k + 1].request = r
    BY <1>2
  <2>2. Present(r) \/ \E j \in 1..Len(s) : j > k + 1 /\ s[j] = End(r)
    BY <2>1 DEF PresenceInv, RequestsInOrder
  <2>3. ASSUME NEW j \in 1..Len(s), j > k + 1, s[j] = End(r)
        PROVE  j - 1 \in 1..Len(s') /\ j - 1 > k /\ s'[j - 1] = End(r)
    BY <1>3, <2>3
  <2> QED
    BY <2>2, <2>3
<1>6. ASSUME NEW j \in 1..Len(s), NEW m, j > 1, s[j] = m PROVE m \in Range(s')
  BY <1>2, <1>3, <1>6 DEF Range
<1>7. ASSUME NEW r \in RequestId, Covered(r) PROVE Covered(r)' \/ End(r) = s[1]
  <2>1. ASSUME End(r) \in Range(s), End(r) # s[1] PROVE End(r) \in Range(s')
    <3>1. PICK j \in 1..Len(s) : s[j] = End(r)
      BY <1>2, <2>1 DEF Range
    <3>2. j > 1
      BY <1>2, <2>1, <3>1
    <3> QED
      BY <1>6, <3>1, <3>2
  <2> QED
    BY <1>4, <1>7, <2>1 DEF Covered
<1>8. ASSUME NEW r \in RequestId, kind = "LogsRequest", r = Head(s).request PROVE Covered(r)'
  <2>1. Present(r) \/ \E j \in 1..Len(s) : j > 1 /\ s[j] = End(r)
    BY <1>1, <1>2, <1>8 DEF PresenceInv, RequestsInOrder
  <2>2. Present(r) \/ End(r) \in Range(s')
    BY <1>6, <2>1
  <2> QED
    BY <1>4, <2>2 DEF Covered
<1> QED
  BY <1>1, <1>5, <1>7, <1>8

\* The presence of collectors, with the server's steps.
LEMMA ServerPresence ==
  ASSUME PresenceInv, TypeOK', CampaignInv', ServerStep
  PROVE  PresenceInv'
<1> DEFINE s == log_campaign_store
<1>1. UNCHANGED <<cli, connected, unsent>>
  BY Zenon DEF ServerStep, HandleLogsRequest, HandleLogsCancelRequest,
         HandleUpdateState, HandleAgentGone, HandleGoodbye, HandleLogsStopResponse
<1>2. UnsentAreOwn'
  BY <1>1 DEF PresenceInv, UnsentAreOwn
<1>3. s \in Store /\ s' \in Store /\ CampaignInv /\ CliIndexed /\ Indexed
  BY DEF CampaignInv, PresenceInv
<1>4. \E k : Receives(k)
  BY Zenon DEF ServerStep, HandleLogsRequest, HandleLogsCancelRequest,
         HandleUpdateState, HandleAgentGone, HandleGoodbye, HandleLogsStopResponse
<1>5. RequestsInOrder' /\ \A r \in RequestId : Covered(r) => Covered(r)' \/ End(r) = Head(to_server)
  BY <1>1, <1>4, TailKeeps
<1>6. \A r \in RequestId : Known(r) => Covered(r)
  BY CoveredFact DEF PresenceInv
<1>7. \A r : End(r).kind \in {"AgentGone", "Goodbye"}
  BY DEF End, AgentGone, Goodbye
<1>8. \A r \in RequestId : r \notin CliRequestId => r \in AgentRequestId
  BY DEF RequestId
<1>9. SUFFICES CliIndexed' /\ \A r \in RequestId : Known(r)' => Covered(r)'
  <2>1. CollectorsArePresent' <=> \A r \in RequestId : Known(r)' => Covered(r)'
    BY DEF CollectorsArePresent, Covered, Present, End
  <2> QED
    BY <1>2, <1>5, <1>9, <2>1 DEF PresenceInv
<1>10. CASE HandleLogsRequest
  <2> DEFINE r == Head(to_server).request
  <2>1. /\ r \in RequestId
        /\ \A c \in Cli, q \in RequestId : q \in s'.cli_log_request_id_store[c] =>
             q \in s.cli_log_request_id_store[c] \/ (q = r /\ r \in CliRequestId /\ c = r.cli)
        /\ \A a \in Agent, q \in RequestId : q \in s'.agent_log_request_ids_store[a] =>
             q \in s.agent_log_request_ids_store[a] \/ (q = r /\ r \notin CliRequestId /\ a = r.agent)
    BY <1>3, <1>10, StoreGrows, ZenonT(30)
  <2>2. CliIndexed'
    <3> SUFFICES ASSUME NEW k \in Cli, NEW q \in s'.cli_log_request_id_store[k] PROVE q.cli = k
      BY DEF CliIndexed
    <3>1. q \in RequestId
      BY <1>3 DEF Store, RequestId
    <3> QED
      BY <1>3, <2>1, <3>1 DEF CliIndexed
  <2>3. Receives("LogsRequest")
    BY <1>10, Zenon DEF HandleLogsRequest
  <2>4. Head(to_server).kind = "LogsRequest"
    BY <2>3 DEF Receives
  <2> SUFFICES ASSUME NEW q \in RequestId, Known(q)' PROVE Covered(q)'
    BY <2>2, ZenonT(30)
  <2>5. CASE q = r
    BY <1>1, <2>3, <2>5, TailKeeps
  <2>6. CASE q # r
    <3>1. Known(q)
      BY <2>1, <2>6 DEF Known
    <3> QED
      BY <1>5, <1>6, <1>7, <2>4, <3>1, SMTT(30)
  <2> QED
    BY <2>5, <2>6
<1>11. CASE HandleLogsCancelRequest \/ HandleUpdateState \/ HandleAgentGone \/ HandleGoodbye
  <2>1. /\ \A c \in Cli : s'.cli_log_request_id_store[c] \subseteq s.cli_log_request_id_store[c]
        /\ \A a \in Agent : s'.agent_log_request_ids_store[a] \subseteq s.agent_log_request_ids_store[a]
        /\ HandleAgentGone => \E b \in Agent : b = Head(to_server).agent /\ s'.agent_log_request_ids_store[b] = {}
        /\ HandleGoodbye => \E c \in Cli : c = Head(to_server).cli /\ s'.cli_log_request_id_store[c] = {}
    BY <1>3, <1>11, StoreShrinks
  <2>2. CliIndexed'
    BY <1>3, <2>1 DEF CliIndexed
  <2> SUFFICES ASSUME NEW q \in RequestId, Known(q)', End(q) = Head(to_server) PROVE FALSE
    <3>1. \A q \in RequestId : Known(q)' => Known(q)
      BY <2>1 DEF Known
    <3> QED
      BY <1>5, <1>6, <2>2, <3>1
  <2>3. CASE q \in CliRequestId
    <3>1. Head(to_server).kind = "Goodbye" /\ Head(to_server).cli = q.cli
      BY <2>3 DEF End, Goodbye
    <3>2. HandleGoodbye
      BY <1>11, <3>1, Zenon DEF HandleLogsCancelRequest, HandleUpdateState, HandleAgentGone, Receives
    <3>3. s'.cli_log_request_id_store[q.cli] = {}
      BY <2>1, <3>1, <3>2, Zenon
    <3>4. q \notin AgentRequestId
      BY <2>3, KindsDiffer
    <3>5. \A a \in Agent : q \notin s'.agent_log_request_ids_store[a]
      BY <1>3, <3>4 DEF Store
    <3>6. PICK k \in Cli : q \in s'.cli_log_request_id_store[k]
      BY <3>5 DEF Known
    <3> QED
      BY <2>2, <3>3, <3>6 DEF CliIndexed
  <2>4. CASE q \notin CliRequestId
    <3>1. Head(to_server).kind = "AgentGone" /\ Head(to_server).agent = q.agent
      BY <2>4 DEF End, AgentGone
    <3>2. HandleAgentGone
      BY <1>11, <3>1, Zenon DEF HandleLogsCancelRequest, HandleUpdateState, HandleGoodbye, Receives
    <3>3. s'.agent_log_request_ids_store[q.agent] = {}
      BY <2>1, <3>1, <3>2, Zenon
    <3>4. \A c \in Cli : q \notin s'.cli_log_request_id_store[c]
      BY <1>3, <2>4 DEF Store
    <3>5. PICK a \in Agent : q \in s'.agent_log_request_ids_store[a]
      BY <3>4, Zenon DEF Known
    <3>6. q.agent = a
      BY <1>3, <2>1, <3>5 DEF Indexed
    <3> QED
      BY <3>3, <3>5, <3>6
  <2> QED
    BY <2>3, <2>4, SMTT(30)
<1>12. CASE HandleLogsStopResponse
  <2>1. s' = s /\ Head(to_server).kind = "LogsStopResponse"
    BY <1>12 DEF HandleLogsStopResponse, serverVars, Receives
  <2>2. CliIndexed' /\ \A r \in RequestId : Known(r)' => Known(r)
    BY <1>3, <2>1, Zenon DEF CliIndexed, Known
  <2> QED
    BY <1>5, <1>6, <1>7, <2>1, <2>2
<1> QED
  BY <1>10, <1>11, <1>12 DEF ServerStep

\* A step of the others: it leaves the store alone, and all that it sends are
\* requests of those who are there, and its own end.
LEMMA OtherKeeps ==
  ASSUME PresenceInv, TypeOK', CampaignInv', UNCHANGED log_campaign_store, UnsentAreOwn',
         NEW M \in Seq(Message), to_server' = to_server \o M,
         \A r \in RequestId : Present(r) => Present(r)' \/ End(r) \in Range(M),
         \A k \in 1..Len(M), r \in RequestId : M[k].kind = "LogsRequest" /\ M[k].request = r => Present(r)'
  PROVE  PresenceInv'
<1>1. RequestsInOrder' /\ \A r \in RequestId : Covered(r) => Covered(r)'
  BY AppendKeeps, Zenon
<1>2. CliIndexed' /\ \A r \in RequestId : Known(r)' => Known(r)
  BY Zenon DEF PresenceInv, CliIndexed, Known
<1>3. \A r \in RequestId : Known(r) => Covered(r)
  BY CoveredFact, Zenon DEF PresenceInv
<1>4. CollectorsArePresent' <=> \A r \in RequestId : Known(r)' => Covered(r)'
  BY DEF CollectorsArePresent, Covered, Present, End
<1> QED
  BY <1>1, <1>2, <1>3, <1>4, Zenon DEF PresenceInv

\* A step that sends nothing.
LEMMA SilentKeeps ==
  ASSUME PresenceInv, TypeOK', CampaignInv', UNCHANGED <<log_campaign_store, unsent, to_server>>,
         \A r \in RequestId : Present(r) => Present(r)'
  PROVE  PresenceInv'
<1>1. UnsentAreOwn'
  BY DEF PresenceInv, UnsentAreOwn
<1>2. to_server' = to_server \o <<>> /\ <<>> \in Seq(Message) /\ Len(<<>>) = 0
  <2>1. to_server \in Seq(Message)
    BY DEF PresenceInv, TypeOK
  <2> QED
    BY <2>1, SMTT(30)
<1>3. \A k \in 1..Len(<<>>) : FALSE
  BY SMTT(30)
<1> QED
  BY <1>1, <1>2, <1>3, OtherKeeps, Zenon

\* An agent sends, or keeps for its next connection, what is not a request, or a
\* request of its own.
LEMMA SendKeeps ==
  ASSUME PresenceInv, TypeOK', CampaignInv', UNCHANGED <<log_campaign_store, connected, cli>>,
         NEW a \in Agent, NEW M \in Seq(Message), Send(a, M),
         \A k \in 1..Len(M) : M[k].kind = "LogsRequest" =>
           M[k].request \in AgentRequestId /\ M[k].request.agent = a
  PROVE  PresenceInv'
<1>1. \A r \in RequestId : Present(r)' <=> Present(r)
  BY DEF Present
<1>2. to_server \in Seq(Message) /\ unsent \in [Agent -> Seq(Message)] /\ UnsentAreOwn
  BY Zenon DEF PresenceInv, TypeOK
<1>3. CASE a \in connected
  <2>1. to_server' = to_server \o M /\ UNCHANGED unsent
    BY <1>3 DEF Send
  <2>2. UnsentAreOwn'
    BY <1>2, <2>1, Zenon DEF UnsentAreOwn
  <2>3. \A k \in 1..Len(M), r \in RequestId : M[k].kind = "LogsRequest" /\ M[k].request = r => Present(r)'
    BY <1>1, <1>3, KindsDiffer DEF Present
  <2> QED
    BY <1>1, <2>1, <2>2, <2>3, OtherKeeps, Zenon
<1>4. CASE a \notin connected
  <2>1. unsent' = [unsent EXCEPT ![a] = @ \o M] /\ UNCHANGED to_server
    BY <1>4 DEF Send
  <2>2. UnsentAreOwn'
    <3> SUFFICES ASSUME NEW b \in Agent, NEW k \in 1..Len(unsent'[b]), unsent'[b][k].kind = "LogsRequest"
                 PROVE  unsent'[b][k].request \in AgentRequestId /\ unsent'[b][k].request.agent = b
      BY DEF UnsentAreOwn
    <3>1. CASE b # a
      <4>1. unsent'[b] = unsent[b]
        BY <1>2, <2>1, <3>1, Zenon
      <4> QED
        BY <1>2, <4>1, Zenon DEF UnsentAreOwn
    <3>2. CASE b = a
      <4>1. unsent'[b] = unsent[a] \o M /\ unsent[a] \in Seq(Message)
        BY <1>2, <2>1, <3>2
      <4>2. CASE k \in 1..Len(unsent[a])
        <5>1. unsent'[b][k] = unsent[a][k]
          BY <4>1, <4>2
        <5> QED
          BY <1>2, <3>2, <4>2, <5>1, Zenon DEF UnsentAreOwn
      <4>3. CASE k \notin 1..Len(unsent[a])
        <5>1. k - Len(unsent[a]) \in 1..Len(M) /\ unsent'[b][k] = M[k - Len(unsent[a])]
          BY <4>1, <4>3
        <5> QED
          BY <3>2, <5>1
      <4> QED
        BY <4>2, <4>3
    <3> QED
      BY <3>1, <3>2
  <2>3. to_server' = to_server \o <<>> /\ <<>> \in Seq(Message) /\ Len(<<>>) = 0
    BY <1>2, <2>1
  <2>4. \A k \in 1..Len(<<>>) : FALSE
    OBVIOUS
  <2> QED
    BY <1>1, <2>2, <2>3, <2>4, OtherKeeps, Zenon
<1> QED
  BY <1>3, <1>4

\* The presence of collectors, with the steps of the agents, the clients and the
\* connections.
LEMMA OtherPresence ==
  ASSUME PresenceInv, TypeOK', CampaignInv', Next, ~ServerStep
  PROVE  PresenceInv'
<1>0. /\ to_server \in Seq(Message) /\ unsent \in [Agent -> Seq(Message)] /\ alive \subseteq Instance
      /\ cli \in [Cli -> [phase : {"new", "request", "listen", "gone", "aborted"}, waits : SUBSET Instance]]
  BY Zenon DEF PresenceInv, TypeOK
<1>1. UNCHANGED <<cli, connected>> => \A r \in RequestId : Present(r) => Present(r)'
  BY Zenon DEF Present
<1>2. ASSUME NEW a \in Agent, execute_from_server_command(a) PROVE PresenceInv'
  <2> DEFINE m == Head(to_agent[a])
  <2>1. to_agent[a] \in Seq(Message) /\ to_agent[a] # <<>> /\ UNCHANGED <<serverVars, cli, connected>>
    BY <1>2, Zenon DEF PresenceInv, TypeOK, execute_from_server_command
  <2>2. m \in Message
    BY <2>1, SMTT(30)
  <2> HIDE DEF m
  <2>3. CASE UNCHANGED <<to_server, unsent>>
    BY <1>1, <2>1, <2>3, SilentKeeps DEF serverVars
  <2>4. CASE m.kind = "LogsRequest" /\ HandleLogsRequestOnAgent(a, m.request, m.instances)
    <3>1. m.request \in RequestId /\ m.instances \cap alive \in SUBSET Instance
      BY <2>2, <2>4, MessageParts, Zenon
    <3> DEFINE S == Stops(m.request, m.instances \cap alive)
    <3>2. \A M \in S : M \in Seq(Message) /\ \A k \in 1..Len(M) : M[k].kind = "LogsStopResponse"
      BY <3>1, SentTypes
    <3>3. UNCHANGED <<to_server, unsent>> \/ \E M \in S : Send(a, M)
      BY <2>4, Zenon DEF HandleLogsRequestOnAgent
    <3> HIDE DEF S
    <3>4. ASSUME NEW M \in S, Send(a, M) PROVE PresenceInv'
      BY <2>1, <3>2, <3>4, SendKeeps DEF serverVars
    <3> QED
      BY <2>3, <3>3, <3>4
  <2> QED
    BY <1>2, <2>3, <2>4 DEF execute_from_server_command, m
<1>3. ASSUME NEW a \in Agent, Connect(a) PROVE PresenceInv'
  <2>1. /\ unsent[a] \in Seq(Message) /\ to_server' = to_server \o unsent[a]
        /\ UNCHANGED <<serverVars, cli>> /\ connected' = connected \cup {a}
        /\ unsent' = [unsent EXCEPT ![a] = <<>>]
    BY <1>0, <1>3 DEF Connect
  <2>2. UnsentAreOwn'
    <3> SUFFICES ASSUME NEW b \in Agent, NEW k \in 1..Len(unsent'[b]), unsent'[b][k].kind = "LogsRequest"
                 PROVE  unsent'[b][k].request \in AgentRequestId /\ unsent'[b][k].request.agent = b
      BY DEF UnsentAreOwn
    <3>1. b # a /\ unsent'[b] = unsent[b]
      BY <1>0, <2>1
    <3> QED
      BY <3>1 DEF PresenceInv, UnsentAreOwn
  <2>3. \A r \in RequestId : Present(r) => Present(r)'
    BY <2>1 DEF Present
  <2>4. \A k \in 1..Len(unsent[a]), r \in RequestId :
          unsent[a][k].kind = "LogsRequest" /\ unsent[a][k].request = r => r \in AgentRequestId /\ r.agent = a
    BY DEF PresenceInv, UnsentAreOwn
  <2>5. \A k \in 1..Len(unsent[a]), r \in RequestId :
          unsent[a][k].kind = "LogsRequest" /\ unsent[a][k].request = r => Present(r)'
    BY <2>1, <2>4, KindsDiffer, Zenon DEF Present
  <2> QED
    BY <2>1, <2>2, <2>3, <2>5, OtherKeeps, Zenon DEF serverVars
<1>4. ASSUME NEW a \in Agent, NEW r \in RequestId, NEW i \in Instance, LogEnds(a, r, i) PROVE PresenceInv'
  <2> DEFINE M == <<LogsStopResponse(r, i)>>
  <2>1. M \in Seq(Message) /\ \A k \in 1..Len(M) : M[k].kind = "LogsStopResponse"
    <3>1. LogsStopResponse(r, i) \in Message /\ LogsStopResponse(r, i).kind = "LogsStopResponse"
      BY MessageFacts DEF LogsStopResponse
    <3> QED
      BY <3>1
  <2>2. Send(a, M) /\ UNCHANGED <<log_campaign_store, connected, cli>>
    BY <1>4 DEF LogEnds, serverVars
  <2> HIDE DEF M
  <2> QED
    BY <2>1, <2>2, SendKeeps
<1>5. ASSUME NEW a \in Agent, NEW r \in RequestId, TaskEnds(a, r) PROVE PresenceInv'
  BY <1>1, <1>5, SilentKeeps, ZenonT(30) DEF TaskEnds, serverVars, linkVars
<1>6. ASSUME NEW a \in Agent, Drop(a) PROVE PresenceInv'
  <2> DEFINE M == <<AgentGone(a)>>
  <2>1. AgentGone(a) \in Message /\ AgentGone(a).kind = "AgentGone"
    BY MessageFacts DEF AgentGone
  <2>2. M \in Seq(Message) /\ (\A k \in 1..Len(M) : M[k].kind = "AgentGone") /\ AgentGone(a) \in Range(M)
    BY <2>1 DEF Range
  <2>3. /\ to_server' = to_server \o M /\ connected' = connected \ {a}
        /\ UNCHANGED <<log_campaign_store, unsent, cli>>
    BY <1>0, <1>6, <2>1 DEF Drop, serverVars
  <2> HIDE DEF M
  <2>4. \A r \in RequestId : Present(r) => Present(r)' \/ End(r) \in Range(M)
    BY <2>2, <2>3 DEF Present, End
  <2>5. UnsentAreOwn'
    BY <2>3 DEF PresenceInv, UnsentAreOwn
  <2> QED
    BY <2>2, <2>3, <2>4, <2>5, OtherKeeps
<1>7. ASSUME NEW i \in Instance, WorkloadStep(i) PROVE PresenceInv'
  BY <1>1, <1>7, SilentKeeps DEF WorkloadStep, serverVars, linkVars
<1>8. ASSUME NEW i \in Instance, CollectorStep(i) PROVE PresenceInv'
  <2>1. i.agent \in Agent
    BY DEF Instance
  <2>2. PICK r \in AgentRequestId :
          /\ collector(r) = i
          /\ (\E P \in Wanted : Send(i.agent, <<LogsRequest(r, P)>>)) \/ Send(i.agent, <<LogsCancelRequest(r)>>)
    BY <1>8 DEF CollectorStep
  <2>3. r.agent = i.agent /\ r \in RequestId
    BY <2>2 DEF collector, RequestId
  <2>4. UNCHANGED <<log_campaign_store, connected, cli>>
    BY <1>8 DEF CollectorStep, serverVars
  <2>5. ASSUME NEW P \in Wanted, Send(i.agent, <<LogsRequest(r, P)>>) PROVE PresenceInv'
    <3> DEFINE M == <<LogsRequest(r, P)>>
    <3>1. LogsRequest(r, P) \in Message /\ LogsRequest(r, P).request = r
      BY <2>3, MessageFacts, LogCampaignsAssumption DEF LogsRequest, LogCampaignsAssumption
    <3>2. M \in Seq(Message) /\ \A k \in 1..Len(M) : M[k].request = r
      BY <3>1
    <3> HIDE DEF M
    <3> QED
      BY <2>1, <2>3, <2>4, <2>5, <3>2, SendKeeps, Zenon DEF M
  <2>6. CASE Send(i.agent, <<LogsCancelRequest(r)>>)
    <3> DEFINE M == <<LogsCancelRequest(r)>>
    <3>1. LogsCancelRequest(r) \in Message /\ LogsCancelRequest(r).request = r
      BY <2>3, MessageFacts, Zenon DEF LogsCancelRequest
    <3>2. M \in Seq(Message) /\ \A k \in 1..Len(M) : M[k].request = r
      BY <3>1
    <3> HIDE DEF M
    <3> QED
      BY <2>1, <2>3, <2>4, <2>6, <3>2, SendKeeps, Zenon DEF M
  <2> QED
    BY <2>2, <2>5, <2>6, Zenon
<1>9. RequestUpdate => PresenceInv'
  <2> SUFFICES ASSUME RequestUpdate PROVE PresenceInv'
    OBVIOUS
  <2>1. PICK W \in Update : to_server' = Append(to_server, UpdateState(W))
    BY ZenonT(30) DEF RequestUpdate
  <2> DEFINE M == <<UpdateState(W)>>
  <2>2. UpdateState(W) \in Message /\ UpdateState(W).kind = "UpdateState"
    BY LogCampaignsAssumption, MessageFacts DEF LogCampaignsAssumption, UpdateState
  <2>3. M \in Seq(Message) /\ (\A k \in 1..Len(M) : M[k].kind = "UpdateState") /\ to_server' = to_server \o M
    BY <1>0, <2>1, <2>2
  <2>4. UNCHANGED <<log_campaign_store, unsent, cli, connected>>
    BY DEF RequestUpdate, serverVars, linkVars
  <2>5. UnsentAreOwn'
    BY <2>4 DEF PresenceInv, UnsentAreOwn
  <2> HIDE DEF M
  <2> QED
    BY <1>1, <2>3, <2>4, <2>5, OtherKeeps, Zenon
<1>10. ASSUME NEW c \in Cli, CliTask(c) \/ send_logs_request_for_workloads(c) \/ Interrupt(c)
       PROVE  PresenceInv'
  <2>1. UNCHANGED <<log_campaign_store, connected, unsent>>
    BY <1>10 DEF CliTask, get_logs_accepted_response, listen_for_workload_logs,
       send_logs_request_for_workloads, Interrupt, serverVars, linkVars
  <2>2. UnsentAreOwn'
    BY <2>1 DEF PresenceInv, UnsentAreOwn
  <2>3. CliRequest(c) \in CliRequestId /\ CliRequest(c).cli = c /\ CliRequest(c) \in RequestId
    <3>1. PICK d \in Id : TRUE
      BY LogCampaignsAssumption DEF LogCampaignsAssumption
    <3>2. [cli |-> c, id |-> d] \in CliRequestId /\ [cli |-> c, id |-> d].cli = c
      BY DEF CliRequestId
    <3> QED
      BY <3>2 DEF CliRequest, RequestId
  <2>4. \A k \in Cli : k # c => cli'[k] = cli[k]
    BY <1>0, <1>10 DEF CliTask, get_logs_accepted_response, listen_for_workload_logs,
       send_logs_request_for_workloads, Interrupt, Leave, Abort
  <2>5. \/ UNCHANGED to_server /\ cli'[c].phase # "gone"
        \/ /\ cli'[c].phase # "gone"
           /\ \E P \in Wanted : to_server' = Append(to_server, LogsRequest(CliRequest(c), P))
        \/ to_server' = to_server \o <<>> \o <<Goodbye(c)>>
        \/ to_server' = to_server \o <<LogsCancelRequest(CliRequest(c))>> \o <<Goodbye(c)>>
    <3>1. CASE Abort(c)
      BY <1>0, <3>1 DEF Abort
    <3>2. CASE \E M \in {<<>>, <<LogsCancelRequest(CliRequest(c))>>} : Leave(c, M)
      BY <3>2, Zenon DEF Leave
    <3>3. CASE send_logs_request_for_workloads(c)
      BY <1>0, <3>3 DEF send_logs_request_for_workloads
    <3>4. CASE get_logs_accepted_response(c) /\ ~Abort(c)
      BY <1>0, <3>4 DEF get_logs_accepted_response
    <3>5. CASE listen_for_workload_logs(c) /\ ~Leave(c, <<>>)
      BY <1>0, <3>5, ZenonT(30) DEF listen_for_workload_logs
    <3> QED
      BY <1>10, <3>1, <3>2, <3>3, <3>4, <3>5 DEF CliTask, Interrupt, listen_for_workload_logs
  <2>6. \A r \in RequestId : r \in CliRequestId => r.cli \in Cli
    BY DEF CliRequestId
  <2>7. cli'[c].phase # "gone" => \A r \in RequestId : Present(r) => Present(r)'
    BY <2>1, <2>4, <2>6, Zenon DEF Present
  <2>8. \A r \in RequestId : Present(r) => Present(r)' \/ End(r) = Goodbye(c)
    BY <2>1, <2>4, <2>6 DEF Present, End
  <2>9. CASE UNCHANGED to_server /\ cli'[c].phase # "gone"
    BY <2>1, <2>7, <2>9, SilentKeeps, Zenon
  <2>10. ASSUME cli'[c].phase # "gone", NEW P \in Wanted, to_server' = Append(to_server, LogsRequest(CliRequest(c), P))
         PROVE  PresenceInv'
    <3> DEFINE M == <<LogsRequest(CliRequest(c), P)>>
    <3>1. LogsRequest(CliRequest(c), P) \in Message /\ LogsRequest(CliRequest(c), P).request = CliRequest(c)
      BY <2>3, MessageFacts, LogCampaignsAssumption, Zenon DEF LogsRequest, LogCampaignsAssumption
    <3>2. M \in Seq(Message) /\ (\A k \in 1..Len(M) : M[k].request = CliRequest(c)) /\ to_server' = to_server \o M
      BY <1>0, <2>10, <3>1
    <3>3. \A r \in RequestId : r = CliRequest(c) => Present(r)'
      BY <2>3, <2>10, Zenon DEF Present
    <3> HIDE DEF M
    <3> QED
      BY <2>1, <2>2, <2>7, <2>10, <3>2, <3>3, OtherKeeps, Zenon
  <2>11. ASSUME NEW M \in Seq(Message), to_server' = to_server \o M, Goodbye(c) \in Range(M),
                \A k \in 1..Len(M) : M[k].kind # "LogsRequest"
         PROVE  PresenceInv'
    BY <2>1, <2>2, <2>8, <2>11, OtherKeeps
  <2>12. CASE to_server' = to_server \o <<>> \o <<Goodbye(c)>>
    <3> DEFINE M == <<Goodbye(c)>>
    <3>1. Goodbye(c) \in Message /\ Goodbye(c).kind = "Goodbye"
      BY MessageFacts DEF Goodbye
    <3>2. M \in Seq(Message) /\ (\A k \in 1..Len(M) : M[k].kind # "LogsRequest") /\ Goodbye(c) \in Range(M)
      BY <3>1 DEF Range
    <3>3. to_server' = to_server \o M
      BY <1>0, <2>12
    <3> HIDE DEF M
    <3> QED
      BY <2>11, <3>2, <3>3
  <2>13. CASE to_server' = to_server \o <<LogsCancelRequest(CliRequest(c))>> \o <<Goodbye(c)>>
    <3> DEFINE m == LogsCancelRequest(CliRequest(c))
               M == <<m, Goodbye(c)>>
    <3>1. /\ Goodbye(c) \in Message /\ Goodbye(c).kind = "Goodbye"
          /\ m \in Message /\ m.kind = "LogsCancelRequest"
      BY <2>3, MessageFacts DEF Goodbye, LogsCancelRequest
    <3> HIDE DEF m
    <3>2. M \in Seq(Message) /\ Len(M) = 2 /\ M[1] = m /\ M[2] = Goodbye(c)
      BY <3>1
    <3>3. \A k \in 1..Len(M) : M[k].kind # "LogsRequest"
      BY <3>1, <3>2
    <3>4. Goodbye(c) \in Range(M)
      BY <3>2 DEF Range
    <3>5. to_server' = to_server \o M
      BY <1>0, <2>13, <3>1 DEF m
    <3> HIDE DEF M
    <3> QED
      BY <2>11, <3>2, <3>3, <3>4, <3>5, ZenonT(30)
  <2> QED
    BY <2>5, <2>9, <2>10, <2>12, <2>13
<1> QED
  BY <1>0, <1>2, <1>3, <1>4, <1>5, <1>6, <1>7, <1>8, <1>9, <1>10 DEF Next, LogTask

\* At first nobody has asked for anything.
LEMMA InitPresence == Init => PresenceInv
<1> SUFFICES ASSUME Init PROVE PresenceInv
  OBVIOUS
<1>1. CampaignInv
  BY InitCampaigns, Zenon
<1>2. to_server = <<>> /\ to_server \in Seq(Message) /\ Len(to_server) = 0
  BY DEF Init
<1>3. \A a \in Agent : unsent[a] = <<>> /\ Len(unsent[a]) = 0
  BY Zenon DEF Init
<1>4. /\ \A a \in Agent : log_campaign_store.agent_log_request_ids_store[a] = {}
      /\ \A c \in Cli : log_campaign_store.cli_log_request_id_store[c] = {}
      /\ \A a \in Agent, r \in RequestId : log_campaign_store.log_providers_store[a][r] = {}
  BY DEF Init, EmptyStore
<1>5. TypeOK
  BY <1>1, <1>2, <1>4, LogCampaignsAssumption, Zenon DEF Init, TypeOK, CampaignInv, LogCampaignsAssumption
<1>6. RequestsInOrder /\ UnsentAreOwn
  BY <1>2, <1>3, SMTT(30) DEF RequestsInOrder, UnsentAreOwn
<1>7. CliIndexed /\ CollectorsArePresent
  BY <1>4 DEF CliIndexed, CollectorsArePresent, Known
<1> QED
  BY <1>1, <1>5, <1>6, <1>7 DEF PresenceInv

\* Every step.
LEMMA NextKeepsPresence == PresenceInv /\ [Next]_vars => PresenceInv'
<1> SUFFICES ASSUME PresenceInv, [Next]_vars PROVE PresenceInv'
  OBVIOUS
<1>1. TypeOK /\ CampaignInv
  BY DEF PresenceInv
<1>2. CampaignInv'
  BY <1>1, NextKeepsCampaigns
<1>3. CASE ServerStep
  BY <1>1, <1>2, <1>3, ServerTypes, ServerPresence
<1>4. CASE Next /\ ~ServerStep
  BY <1>1, <1>2, <1>4, OtherTypes, OtherPresence
<1>5. CASE UNCHANGED vars
  <2>1. TypeOK'
    BY <1>1, <1>5 DEF TypeOK, vars, serverVars, agentVars, linkVars
  <2>2. UNCHANGED <<cli, connected>> => \A r \in RequestId : Present(r) => Present(r)'
    BY DEF Present
  <2> QED
    BY <1>2, <1>5, <2>1, <2>2, SilentKeeps, ZenonT(30) DEF vars, serverVars, linkVars
<1> QED
  BY <1>3, <1>4, <1>5

\* The invariant holds always.
LEMMA PresenceInvariant == Spec => []PresenceInv
<1>1. Init => PresenceInv
  BY InitPresence
<1>2. PresenceInv /\ [Next]_vars => PresenceInv'
  BY NextKeepsPresence
<1> QED
  BY <1>1, <1>2, PTL DEF Spec

\* Whatever the sets of agents, workloads, clients and requests: the channels carry
\* well-formed messages, and the store has every instance under its own agent.
THEOREM CampaignsTypeCorrect == Spec => []TypeOK
<1>1. PresenceInv => TypeOK
  BY DEF PresenceInv
<1> QED
  BY <1>1, PresenceInvariant, PTL

\* Whatever the sets of agents, workloads, clients and requests: a collector that the
\* store knows (log_campaign_store.rs) is still there, or the message about its end
\* is on its way to the server, whatever the order of requests, cancellations, ends
\* of connections and new connections; it can be a client that aborted.
THEOREM CollectorsAreAlwaysPresent == Spec => []CollectorsArePresent
<1>1. PresenceInv => CollectorsArePresent
  BY DEF PresenceInv
<1> QED
  BY <1>1, PresenceInvariant, PTL

=============================================================================
