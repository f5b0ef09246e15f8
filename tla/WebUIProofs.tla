---------------------------- MODULE WebUIProofs ----------------------------
(***************************************************************************)
(* Safety of the page for any number of versions and of overlapping        *)
(* chains: verdicts shown are those of runs, and a verification under way  *)
(* keeps a chain that polls it.                                            *)
(***************************************************************************)
EXTENDS WebLadder, TLAPS

(* What the type of a chain says of its fields.                            *)
LEMMA ChainFields ==
    ASSUME TypeOK, NEW c \in Chains
    PROVE  /\ chain[c].at = "idle" => chain[c] = Idle
           /\ chain[c].at \in {"get", "create"} => chain[c] \in Fetch
           /\ chain[c].at \in {"submit", "poll", "evidence", "timer"} =>
                 chain[c] \in Check
           /\ chain[c].at \in {"idle", "get", "create", "submit", "poll",
                               "evidence", "timer"}
<1>1. chain[c] \in Chain
  BY DEF TypeOK
<1>2. CASE chain[c] = Idle
  BY <1>2 DEF Idle
<1>3. CASE chain[c] \in Fetch
  BY <1>3 DEF Fetch
<1>4. CASE chain[c] \in Check
  BY <1>4 DEF Check
<1> QED  BY <1>1, <1>2, <1>3, <1>4 DEF Chain

(* One chain moves: what it becomes, and that the others stay.             *)
LEMMA OneMoves ==
    ASSUME TypeOK, NEW c \in Chains, NEW r, Then(c, r)
    PROVE  /\ chain'[c] = r
           /\ \A d \in Chains : d # c => chain'[d] = chain[d]
           /\ r \in Chain => chain' \in [Chains -> Chain]
BY DEF TypeOK, Then

LEMMA OneHears ==
    ASSUME TypeOK, NEW c \in Chains, NEW r, Answer(c, r)
    PROVE  /\ chain'[c] = [chain[c] EXCEPT !.reply = r]
           /\ \A d \in Chains : d # c => chain'[d] = chain[d]
           /\ chain'[c] \in Chain => chain' \in [Chains -> Chain]
BY DEF TypeOK, Answer

LEMMA AnswerFetch ==
    ASSUME TypeOK, NEW c \in Chains, NEW r, Answer(c, r),
           chain[c].at \in {"get", "create"},
           r \in FetchReply
    PROVE  /\ chain'[c] \in Fetch
           /\ chain'[c].at = chain[c].at
           /\ chain'[c].of = chain[c].of
           /\ chain'[c].reply = r
           /\ chain' \in [Chains -> Chain]
<1>1. chain[c] \in Fetch
  BY ChainFields
<1>2. chain'[c] = [chain[c] EXCEPT !.reply = r]
  BY OneHears
<1>3. /\ chain'[c] \in Fetch /\ chain'[c].at = chain[c].at
      /\ chain'[c].of = chain[c].of /\ chain'[c].reply = r
  BY <1>1, <1>2 DEF Fetch
<1> QED  BY <1>3, OneHears DEF Chain

LEMMA AnswerCheck ==
    ASSUME TypeOK, NEW c \in Chains, NEW r, Answer(c, r),
           chain[c].at \in {"submit", "poll"},
           r \in CheckReply
    PROVE  /\ chain'[c] \in Check
           /\ chain'[c].at = chain[c].at
           /\ chain'[c].of = chain[c].of
           /\ chain'[c].kind = chain[c].kind
           /\ chain'[c].reply = r
           /\ chain' \in [Chains -> Chain]
<1>1. chain[c] \in Check
  BY ChainFields
<1>2. chain'[c] = [chain[c] EXCEPT !.reply = r]
  BY OneHears
<1>3. /\ chain'[c] \in Check /\ chain'[c].at = chain[c].at
      /\ chain'[c].of = chain[c].of /\ chain'[c].kind = chain[c].kind
      /\ chain'[c].reply = r
  BY <1>1, <1>2 DEF Check
<1> QED  BY <1>3, OneHears DEF Chain

LEMMA Requests ==
    ASSUME NEW v \in Versions, NEW k \in Kinds,
           NEW at \in {"submit", "poll", "evidence", "timer"}
    PROVE  /\ Get(v) \in Chain
           /\ Request(at, k, v) \in Chain
           /\ Idle \in Chain
BY DEF Get, Request, Idle, Chain, Fetch, Check

LEMMA StatusIsSet ==
    ASSUME NEW r \in Record, NEW k \in Kinds, NEW s \in CheckStatus
    PROVE  /\ WithStatus(r, k, s) \in Record
           /\ WithStatus(r, k, s)[k] = s
           /\ \A j \in Kinds : j # k => WithStatus(r, k, s)[j] = r[j]
           /\ WithStatus(r, k, s).held = r.held
<1>1. CASE k = "verification"
  BY <1>1 DEF WithStatus, Record, Kinds
<1>2. CASE k = "simulation"
  BY <1>2 DEF WithStatus, Record, Kinds
<1> QED  BY <1>1, <1>2 DEF Kinds

(* The version a submission marks running.                                 *)
LEMMA RunIsHeld ==
    ASSUME NEW r \in Record, NEW k \in Kinds, NEW s \in CheckStatus, NEW q,
           q = [WithStatus(r, k, s) EXCEPT !.held = r.held \cup {k}]
    PROVE  /\ q \in Record
           /\ q[k] = s
           /\ \A j \in Kinds : j # k => q[j] = r[j]
           /\ q.held = r.held \cup {k}
<1> DEFINE w == WithStatus(r, k, s)
<1>1. /\ w \in Record /\ w[k] = s
      /\ \A j \in Kinds : j # k => w[j] = r[j]
  BY StatusIsSet
<1>2. r.held \cup {k} \in SUBSET Kinds
  BY DEF Record
<1>3. q = [w EXCEPT !.held = r.held \cup {k}]
  OBVIOUS
<1> HIDE DEF w
<1>4. /\ q \in Record /\ q.held = r.held \cup {k}
      /\ q.verification = w.verification /\ q.simulation = w.simulation
  BY <1>1, <1>2, <1>3 DEF Record
<1> QED  BY <1>1, <1>4 DEF Kinds

-----------------------------------------------------------------------------
(* Versions stay, and a run that has ended has ended.                      *)
Grows ==
    /\ \A v \in Versions : rtl[v] # None => rtl'[v] # None
    /\ \A k \in Kinds, v \in Versions :
          /\ run[v][k] \in Terminal => run'[v][k] = run[v][k]
          /\ run[v][k] # "none" => run'[v][k] # "none"

LEMMA CopiesStayEarned ==
    ASSUME Grows, NEW copy \in Copy, CopyIsEarned(copy)
    PROVE  /\ rtl'[copy.id] # None
           /\ \A k \in Kinds : Earned(copy[k], k, copy.id)'
<1>1. copy.id \in Versions /\ rtl[copy.id] # None
  BY DEF Copy, CopyIsEarned
<1>2. ASSUME NEW k \in Kinds
      PROVE  Earned(copy[k], k, copy.id)'
  BY <1>1 DEF Grows, CopyIsEarned, Earned, Terminal
<1> QED  BY <1>1, <1>2 DEF Grows

(* A chain that does not move stays earned.                                *)
LEMMA ChainStaysEarned ==
    ASSUME TypeOK, Grows, NEW d \in Chains, chain'[d] = chain[d],
           ChainIsEarned(d)
    PROVE  ChainIsEarned(d)'
<1>1. chain[d].at \notin {"idle", "create"} =>
         chain[d].of \in Versions /\ rtl[chain[d].of] # None
  BY ChainFields DEF ChainIsEarned, Fetch, Check
<1>2. chain[d].at = "create" /\ chain[d].of # None =>
         chain[d].of \in Versions /\ rtl[chain[d].of] # None
  BY ChainFields DEF ChainIsEarned, Fetch
<1>3. ASSUME chain[d].at \in {"get", "create"}, Hearable(d)
      PROVE  chain[d].reply.copy # None /\ CopyIsEarned(chain[d].reply.copy)'
  <2>1. chain[d].reply.copy # None /\ CopyIsEarned(chain[d].reply.copy)
    BY <1>3 DEF ChainIsEarned
  <2>2. chain[d].reply.copy \in Copy
    BY <1>3, <2>1, ChainFields DEF Hearable, Fetch, FetchReply
  <2> QED  BY <2>1, <2>2, CopiesStayEarned DEF CopyIsEarned
<1> QED  BY <1>1, <1>2, <1>3 DEF ChainIsEarned, Hearable, Grows

LEMMA ChainsStayEarned ==
    ASSUME TypeOK, PageInv, Grows, NEW c \in Chains,
           \A d \in Chains : d # c => chain'[d] = chain[d],
           ChainIsEarned(c)'
    PROVE  \A d \in Chains : ChainIsEarned(d)'
BY ChainStaysEarned DEF PageInv

LEMMA VersionStaysEarned ==
    ASSUME TypeOK, PageInv, Grows, UNCHANGED version
    PROVE  VerdictsShownAreEarned'
BY CopiesStayEarned DEF PageInv, VerdictsShownAreEarned, TypeOK, CopyIsEarned

LEMMA RecordsStayEarned ==
    ASSUME PageInv, UNCHANGED <<rtl, run>>
    PROVE  Grows /\ \A v \in Versions : RecordIsEarned(v)'
BY DEF PageInv, RecordIsEarned, Earned, Grows

(* A version stays watched unless its status changes or its watcher goes.  *)
LEMMA StaysWatched ==
    ASSUME VerificationIsWatched, NEW c \in Chains, NEW v \in Versions,
           \A d \in Chains : d # c => chain'[d] = chain[d],
           rtl[v] # None /\ rtl[v].verification = "running" /\ v \notin lost,
           Watching(c, v) => Watching(c, v)'
    PROVE  ~Unwatched(v)'
<1>1. PICK d \in Chains : Watching(d, v)
  BY DEF VerificationIsWatched, Unwatched
<1>2. Watching(d, v)'
  BY <1>1 DEF Watching
<1> QED  BY <1>2 DEF Unwatched

-----------------------------------------------------------------------------
(* The user only starts chains of versions that exist.                     *)
LEMMA UserStep ==
    ASSUME WebInv, NEW c \in Chains, User(c)
    PROVE  WebInv'
<1>1. PICK r : /\ Start(c, r)
               /\ \/ \E v \in Versions : rtl[v] # None /\ r = Get(v)
                  \/ \E v \in Versions : /\ version # None /\ v = version.id
                                         /\ \E k \in Kinds : r = Request("submit", k, v)
                  \/ r = [at |-> "create", of |-> None, reply |-> None]
                  \/ version # None
                     /\ r = [at |-> "create", of |-> version.id, reply |-> None]
  <2>1. version # None => version.id \in Versions
    BY DEF WebInv, TypeOK, Copy
  <2>2. CASE \E v \in Versions : Select(c, v)
    BY <2>2 DEF Select
  <2>3. CASE Generate(c)
    BY <2>3 DEF Generate
  <2>4. CASE NewVersion(c)
    BY <2>4 DEF NewVersion
  <2>5. CASE Verify(c)
    BY <2>1, <2>5 DEF Verify, Kinds
  <2>6. CASE Simulate(c)
    BY <2>1, <2>6 DEF Simulate, Kinds
  <2> QED  BY <2>2, <2>3, <2>4, <2>5, <2>6 DEF User
<1>2. version # None => version \in Copy /\ version.id \in Versions /\ rtl[version.id] # None
  BY DEF WebInv, TypeOK, PageInv, VerdictsShownAreEarned, CopyIsEarned, Copy
<1>3. /\ r \in Chain /\ r.reply = None
      /\ r.at \in {"get", "create", "submit"}
      /\ r.at # "create" => rtl[r.of] # None
      /\ r.at = "create" /\ r.of # None => rtl[r.of] # None
  BY <1>1, <1>2, Requests DEF Get, Request, Chain, Fetch, Check
<1>4. /\ chain'[c] = r
      /\ \A d \in Chains : d # c => chain'[d] = chain[d]
      /\ chain' \in [Chains -> Chain]
  BY <1>1, <1>3, OneMoves DEF Start, Then, WebInv
<1>5. UNCHANGED <<rtl, run, version, lost>> /\ chain[c] = Idle
  BY <1>1 DEF Start
<1>6. TypeOK'
  BY <1>4, <1>5 DEF WebInv, TypeOK
<1>7. ChainIsEarned(c)'
  BY <1>3, <1>4, <1>5 DEF ChainIsEarned, Hearable
<1>8. PageInv'
  BY <1>4, <1>5, <1>7, RecordsStayEarned, ChainsStayEarned, VersionStaysEarned
     DEF WebInv, PageInv
<1>9. VerificationIsWatched'
  <2> SUFFICES ASSUME NEW v \in Versions
               PROVE  ~Unwatched(v)'
    BY DEF VerificationIsWatched
  <2>1. ~Watching(c, v)
    BY <1>5 DEF Watching, Idle
  <2> QED  BY <1>4, <1>5, <2>1, StaysWatched DEF WebInv, Unwatched
<1> QED  BY <1>6, <1>8, <1>9 DEF WebInv

(* The answer to a fetch; the copy is read from the server's record.       *)
LEMMA ServeGetStep ==
    ASSUME WebInv, NEW c \in Chains, ServeGet(c)
    PROVE  WebInv'
<1> DEFINE r == [ok |-> TRUE, copy |-> CopyOf(chain[c].of)]
<1>1. /\ chain[c].at = "get" /\ Answer(c, r)
      /\ UNCHANGED <<rtl, run, version, lost>>
  BY DEF ServeGet, Waits
<1>2. chain[c].of \in Versions /\ rtl[chain[c].of] # None
  BY <1>1, ChainFields DEF WebInv, PageInv, ChainIsEarned, Fetch
<1>3. rtl[chain[c].of] \in Record
  BY <1>2 DEF WebInv, TypeOK
<1>4. /\ CopyOf(chain[c].of) \in Copy
      /\ CopyOf(chain[c].of).id = chain[c].of
      /\ \A k \in Kinds : CopyOf(chain[c].of)[k] = rtl[chain[c].of][k]
  BY <1>2, <1>3 DEF CopyOf, Copy, Record, Kinds
<1>5. r \in FetchReply
  BY <1>4 DEF FetchReply
<1>6. /\ chain'[c].at = "get" /\ chain'[c].of = chain[c].of
      /\ chain'[c].reply = r /\ chain' \in [Chains -> Chain]
      /\ \A d \in Chains : d # c => chain'[d] = chain[d]
  BY <1>1, <1>5, AnswerFetch, OneHears DEF WebInv
<1>7. CopyIsEarned(r.copy)
  BY <1>2, <1>4 DEF WebInv, PageInv, RecordIsEarned, CopyIsEarned
<1>8. r.copy # None
  BY <1>4, WebAssumption
<1>9. ChainIsEarned(c)'
  BY <1>1, <1>2, <1>6, <1>7, <1>8 DEF ChainIsEarned, CopyIsEarned, Earned
<1>10. TypeOK'
  BY <1>1, <1>6 DEF WebInv, TypeOK
<1>11. PageInv'
  BY <1>1, <1>6, <1>9, RecordsStayEarned, ChainsStayEarned, VersionStaysEarned
     DEF WebInv, PageInv
<1>12. VerificationIsWatched'
  <2> SUFFICES ASSUME NEW v \in Versions
               PROVE  ~Unwatched(v)'
    BY DEF VerificationIsWatched
  <2>1. ~Watching(c, v)
    BY <1>1 DEF Watching
  <2> QED  BY <1>1, <1>6, <2>1, StaysWatched DEF WebInv, Unwatched
<1> QED  BY <1>10, <1>11, <1>12 DEF WebInv

LEMMA ServeCreateStep ==
    ASSUME WebInv, NEW c \in Chains, ServeCreate(c)
    PROVE  WebInv'
<1>0. PICK f : f = Fresh
  OBVIOUS
<1> DEFINE copy == [id |-> f, verification |-> "not_run",
                    simulation |-> "not_run"]
           r == [ok |-> TRUE, copy |-> copy]
<1>1. /\ chain[c].at = "create" /\ Answer(c, r)
      /\ UNCHANGED <<run, version, lost>>
      /\ rtl' = [w \in Versions |-> IF w = f THEN NewRecord
                                    ELSE IF w = chain[c].of THEN Invalidated
                                    ELSE rtl[w]]
  BY <1>0 DEF ServeCreate, Waits
<1>2. f \in Versions /\ rtl[f] = None
  BY <1>0 DEF ServeCreate, Fresh
<1>3. /\ NewRecord \in Record /\ Invalidated \in Record
      /\ NewRecord # None /\ Invalidated # None
  <2>1. NewRecord \in Record /\ Invalidated \in Record
    BY DEF NewRecord, Invalidated, Record, CheckStatus
  <2> QED  BY <2>1, WebAssumption
<1>4. Grows
  BY <1>1, <1>2, <1>3 DEF Grows
<1>5. copy \in Copy /\ copy # None /\ r \in FetchReply
  <2>1. copy \in Copy
    BY <1>2 DEF Copy, CheckStatus
  <2> HIDE DEF copy
  <2> QED  BY <2>1, WebAssumption DEF FetchReply
<1>6. /\ chain'[c].at = "create" /\ chain'[c].of = chain[c].of
      /\ chain'[c].reply = r /\ chain' \in [Chains -> Chain]
      /\ \A d \in Chains : d # c => chain'[d] = chain[d]
  BY <1>1, <1>5, AnswerFetch, OneHears DEF WebInv
<1>7. CopyIsEarned(copy)'
  BY <1>1, <1>2, <1>3 DEF CopyIsEarned, Earned, Kinds
<1>8. chain[c].of # None => chain[c].of \in Versions /\ rtl[chain[c].of] # None
  BY <1>1, ChainFields DEF WebInv, PageInv, ChainIsEarned, Fetch
<1>9. ChainIsEarned(c)'
  BY <1>4, <1>5, <1>6, <1>7, <1>8 DEF ChainIsEarned, Hearable, Grows
<1>10. TypeOK'
  BY <1>1, <1>3, <1>6 DEF WebInv, TypeOK
<1>11. \A v \in Versions : RecordIsEarned(v)'
  <2> SUFFICES ASSUME NEW v \in Versions
               PROVE  RecordIsEarned(v)'
    OBVIOUS
  <2>1. CASE rtl'[v] = NewRecord \/ rtl'[v] = Invalidated
    BY <2>1 DEF RecordIsEarned, Earned, NewRecord, Invalidated, Kinds
  <2>2. CASE rtl'[v] = rtl[v]
    BY <1>1, <2>2 DEF WebInv, PageInv, RecordIsEarned, Earned
  <2> QED  BY <1>1, <2>1, <2>2
<1>12. PageInv'
  BY <1>1, <1>4, <1>6, <1>9, <1>11, ChainsStayEarned, VersionStaysEarned
     DEF WebInv, PageInv
<1>13. VerificationIsWatched'
  <2> SUFFICES ASSUME NEW v \in Versions, rtl'[v] # None,
                      rtl'[v].verification = "running", v \notin lost
               PROVE  ~Unwatched(v)'
    BY <1>1 DEF VerificationIsWatched, Unwatched
  <2>1. rtl'[v] = rtl[v]
    BY <1>1 DEF NewRecord, Invalidated
  <2>2. ~Watching(c, v)
    BY <1>1 DEF Watching
  <2> QED  BY <1>1, <1>6, <2>1, <2>2, StaysWatched DEF WebInv
<1> QED  BY <1>10, <1>12, <1>13 DEF WebInv

(* A chain whose check is answered keeps its version.                      *)
LEMMA CheckStaysEarned ==
    ASSUME TypeOK, PageInv, Grows, NEW c \in Chains, NEW r \in CheckReply,
           chain[c].at \in {"submit", "poll"}, Answer(c, r)
    PROVE  \A d \in Chains : ChainIsEarned(d)'
<1>1. chain[c].of \in Versions /\ rtl[chain[c].of] # None
  BY ChainFields DEF PageInv, ChainIsEarned, Check
<1>2. chain'[c].at = chain[c].at /\ chain'[c].of = chain[c].of
  BY AnswerCheck
<1>3. ChainIsEarned(c)'
  BY <1>1, <1>2 DEF ChainIsEarned, Grows
<1> QED  BY <1>3, OneHears, ChainsStayEarned

LEMMA ServeSubmitStep ==
    ASSUME WebInv, NEW c \in Chains, ServeSubmit(c)
    PROVE  WebInv'
<1>0. PICK k \in Kinds, v \in Versions :
         k = chain[c].kind /\ v = chain[c].of /\ rtl[v] # None /\ rtl[v] \in Record
  BY ChainFields DEF ServeSubmit, Waits, WebInv, PageInv, ChainIsEarned, Check,
                     TypeOK
<1>1. chain[c].at = "submit" /\ chain[c].reply = None /\ UNCHANGED version
  BY DEF ServeSubmit, Waits
<1>2. CASE ~Submittable(k, v)
  <2>1. Answer(c, Refused) /\ UNCHANGED <<rtl, run, lost>>
    BY <1>0, <1>2 DEF ServeSubmit
  <2>2. Refused \in CheckReply
    BY DEF Refused, CheckReply
  <2>3. chain' \in [Chains -> Chain] /\ \A d \in Chains : d # c => chain'[d] = chain[d]
    BY <1>1, <2>1, <2>2, AnswerCheck, OneHears DEF WebInv
  <2>4. TypeOK'
    BY <1>1, <2>1, <2>3 DEF WebInv, TypeOK
  <2>5. PageInv'
    BY <1>1, <2>1, <2>2, RecordsStayEarned, CheckStaysEarned, VersionStaysEarned
       DEF WebInv, PageInv
  <2>6. ASSUME NEW w \in Versions
        PROVE  ~Unwatched(w)'
    <3>1. ~Watching(c, w)
      BY <1>1 DEF Watching
    <3> QED  BY <2>1, <2>3, <3>1, StaysWatched DEF WebInv, Unwatched
  <2> QED  BY <2>4, <2>5, <2>6 DEF WebInv, VerificationIsWatched
<1>3. CASE Submittable(k, v)
  <2> DEFINE r == Accepted("active")
  <2>1. /\ rtl' = [rtl EXCEPT ![v] = [WithStatus(rtl[v], k, "running")
                                      EXCEPT !.held = rtl[v].held \cup {k}]]
        /\ run' = [run EXCEPT ![v][k] =
                      IF run[v][k] = "none" THEN "active" ELSE run[v][k]]
        /\ lost' = IF k = "verification" THEN lost \ {v} ELSE lost
        /\ Answer(c, r)
    BY <1>0, <1>3 DEF ServeSubmit, Admit
  <2>2. rtl \in [Versions -> {None} \cup Record]
        /\ run \in [Versions -> [Kinds -> {"none", "active"} \cup Terminal]]
    BY DEF WebInv, TypeOK
  <2>3. /\ rtl'[v] \in Record /\ rtl'[v][k] = "running"
        /\ \A j \in Kinds : j # k => rtl'[v][j] = rtl[v][j]
        /\ rtl'[v].held = rtl[v].held \cup {k}
    <3>1. rtl'[v] = [WithStatus(rtl[v], k, "running")
                     EXCEPT !.held = rtl[v].held \cup {k}]
      BY <2>1, <2>2
    <3>2. "running" \in CheckStatus
      BY DEF CheckStatus
    <3> QED  BY <1>0, <3>1, <3>2, RunIsHeld
  <2>4. rtl'[v] # None
    BY <2>3, WebAssumption
  <2>5. \A w \in Versions : w # v => rtl'[w] = rtl[w] /\ run'[w] = run[w]
    BY <2>1, <2>2
  <2>6. /\ run'[v][k] = IF run[v][k] = "none" THEN "active" ELSE run[v][k]
        /\ \A j \in Kinds : j # k => run'[v][j] = run[v][j]
        /\ run' \in [Versions -> [Kinds -> {"none", "active"} \cup Terminal]]
    BY <2>1, <2>2
  <2>7. rtl' \in [Versions -> {None} \cup Record]
    <3>1. DOMAIN rtl' = Versions /\ rtl' = [w \in Versions |-> rtl'[w]]
      BY <2>1, <2>2
    <3> QED  BY <2>2, <2>3, <2>5, <3>1
  <2>8. Grows
    BY <2>4, <2>5, <2>6 DEF Grows, Terminal
  <2>9. r \in CheckReply /\ r # None /\ r.ok /\ r.status = "active"
    <3>1. r \in CheckReply
      BY DEF Accepted, CheckReply
    <3> QED  BY <3>1, WebAssumption DEF Accepted
  <2> HIDE DEF r
  <2>10. /\ chain'[c].at = "submit" /\ chain'[c].of = v /\ chain'[c].kind = k
         /\ chain'[c].reply = r /\ chain' \in [Chains -> Chain]
         /\ \A d \in Chains : d # c => chain'[d] = chain[d]
    BY <1>0, <1>1, <2>1, <2>9, AnswerCheck, OneHears DEF WebInv
  <2>11. TypeOK'
    BY <1>1, <2>1, <2>6, <2>7, <2>10 DEF WebInv, TypeOK
  <2>12. ASSUME NEW w \in Versions
         PROVE  RecordIsEarned(w)'
    <3>1. CASE w # v
      BY <2>5, <3>1 DEF WebInv, PageInv, RecordIsEarned, Earned
    <3>2. CASE w = v
      <4> SUFFICES ASSUME NEW j \in Kinds
                   PROVE  /\ Earned(rtl[v][j], j, v)'
                          /\ rtl'[v][j] = "running" => j \in rtl'[v].held
                          /\ j \in rtl'[v].held => run'[v][j] # "none"
        BY <3>2 DEF RecordIsEarned
      <4>1. /\ Earned(rtl[v][j], j, v)
            /\ rtl[v][j] = "running" => j \in rtl[v].held
            /\ j \in rtl[v].held => run[v][j] # "none"
        BY <1>0 DEF WebInv, PageInv, RecordIsEarned
      <4> QED  BY <2>3, <2>6, <4>1 DEF Earned
    <3> QED  BY <3>1, <3>2
  <2>13. PageInv'
    BY <1>1, <2>1, <2>8, <2>9, <2>12, CheckStaysEarned, VersionStaysEarned
       DEF WebInv, PageInv
  <2>14. ASSUME NEW w \in Versions, rtl'[w] # None,
                rtl'[w].verification = "running", w \notin lost'
         PROVE  ~Unwatched(w)'
    <3>1. CASE w = v /\ k = "verification"
      BY <2>9, <2>10, <3>1 DEF Watching, Unwatched, Terminal
    <3>2. CASE w # v \/ k # "verification"
      <4>1. rtl[w] # None /\ rtl[w].verification = "running" /\ w \notin lost
        BY <1>0, <2>1, <2>3, <2>5, <2>14, <3>2 DEF Kinds
      <4>2. ~Watching(c, w)
        BY <1>1 DEF Watching
      <4> QED  BY <2>10, <4>1, <4>2, StaysWatched DEF WebInv
    <3> QED  BY <3>1, <3>2
  <2> QED  BY <2>11, <2>13, <2>14 DEF WebInv, VerificationIsWatched, Unwatched
<1> QED  BY <1>2, <1>3

LEMMA ServePollStep ==
    ASSUME WebInv, NEW c \in Chains, ServePoll(c)
    PROVE  WebInv'
<1>0. PICK k \in Kinds, v \in Versions :
         k = chain[c].kind /\ v = chain[c].of /\ rtl[v] # None /\ rtl[v] \in Record
  BY ChainFields DEF ServePoll, Waits, WebInv, PageInv, ChainIsEarned, Check,
                     TypeOK
<1>1. chain[c].at = "poll" /\ chain[c].reply = None
      /\ UNCHANGED <<run, version, lost>>
  BY DEF ServePoll, Waits
<1>2. /\ rtl \in [Versions -> {None} \cup Record]
      /\ run \in [Versions -> [Kinds -> {"none", "active"} \cup Terminal]]
  BY DEF WebInv, TypeOK
<1> DEFINE answered == k \in rtl[v].held /\ (Awaited(k, v) => Submittable(k, v))
<1>3. PICK r \in CheckReply :
         /\ Answer(c, r)
         /\ answered => /\ r = Accepted(run[v][k])
                         /\ ObserveRun(k, v)
         /\ ~answered => r = Refused /\ UNCHANGED rtl
  <2>1. CASE answered
    <3>1. run[v][k] \in {"active"} \cup Terminal
      BY <1>0, <1>2, <2>1 DEF WebInv, PageInv, RecordIsEarned
    <3>2. Accepted(run[v][k]) \in CheckReply
      BY <3>1 DEF Accepted, CheckReply
    <3> QED  BY <1>0, <2>1, <3>2 DEF ServePoll
  <2>2. CASE ~answered
    <3>1. Refused \in CheckReply
      BY DEF Refused, CheckReply
    <3> QED  BY <1>0, <2>2, <3>1 DEF ServePoll
  <2> QED  BY <2>1, <2>2
<1> DEFINE records == answered /\ Awaited(k, v)
<1>4. ASSUME records
      PROVE  /\ rtl' \in [Versions -> {None} \cup Record]
             /\ \A w \in Versions : RecordIsEarned(w)'
             /\ \A w \in Versions : rtl[w] # None => rtl'[w] # None
             /\ \A w \in Versions :
                   rtl'[w] # None /\ rtl'[w].verification = "running" =>
                      /\ rtl[w] # None /\ rtl[w].verification = "running"
                      /\ ~(w = v /\ k = "verification")
  <2>1. Verdict(run[v][k]) \in CheckStatus
    BY DEF Verdict, CheckStatus
  <2>2. rtl' = [rtl EXCEPT ![v] = WithStatus(rtl[v], k, Verdict(run[v][k]))]
    BY <1>3, <1>4 DEF ObserveRun
  <2>3. /\ rtl'[v] \in Record /\ rtl'[v][k] = Verdict(run[v][k])
        /\ \A j \in Kinds : j # k => rtl'[v][j] = rtl[v][j]
        /\ rtl'[v].held = rtl[v].held
        /\ rtl' \in [Versions -> {None} \cup Record]
        /\ \A w \in Versions : w # v => rtl'[w] = rtl[w]
    BY <1>0, <1>2, <2>1, <2>2, StatusIsSet
  <2>4. rtl'[v] # None
    BY <2>3, WebAssumption
  <2>5. \A w \in Versions : RecordIsEarned(w)'
    <3> SUFFICES ASSUME NEW w \in Versions
                 PROVE  RecordIsEarned(w)'
      OBVIOUS
    <3>1. CASE w # v
      BY <1>1, <2>3, <3>1 DEF WebInv, PageInv, RecordIsEarned, Earned
    <3>2. CASE w = v
      <4> SUFFICES ASSUME NEW j \in Kinds
                   PROVE  /\ Earned(rtl[v][j], j, v)'
                          /\ rtl'[v][j] = "running" => j \in rtl'[v].held
                          /\ j \in rtl'[v].held => run'[v][j] # "none"
        BY <3>2 DEF RecordIsEarned
      <4>1. /\ Earned(rtl[v][j], j, v)
            /\ rtl[v][j] = "running" => j \in rtl[v].held
            /\ j \in rtl[v].held => run[v][j] # "none"
        BY <1>0 DEF WebInv, PageInv, RecordIsEarned
      <4>2. run[v][k] \in Terminal
        BY <1>4 DEF Awaited
      <4> QED  BY <1>1, <2>3, <4>1, <4>2 DEF Earned, Verdict, Terminal
    <3> QED  BY <3>1, <3>2
  <2>6. \A w \in Versions : rtl[w] # None => rtl'[w] # None
    BY <2>3, <2>4
  <2>7. \A w \in Versions : rtl'[w].verification = "running" =>
            \/ rtl'[w] = rtl[w] /\ w # v
            \/ w = v /\ k # "verification" /\ rtl[w].verification = "running"
    BY <2>3 DEF Verdict, Kinds
  <2>8. \A w \in Versions : rtl'[w] # None /\ rtl'[w].verification = "running" =>
            /\ rtl[w] # None /\ rtl[w].verification = "running"
            /\ ~(w = v /\ k = "verification")
    BY <1>0, <2>7
  <2> QED  BY <2>3, <2>5, <2>6, <2>8
<1>5. ASSUME ~records
      PROVE  UNCHANGED rtl
  BY <1>3, <1>5 DEF ObserveRun
<1>6. /\ rtl' \in [Versions -> {None} \cup Record]
      /\ \A w \in Versions : RecordIsEarned(w)'
      /\ Grows
  BY <1>1, <1>2, <1>4, <1>5, RecordsStayEarned DEF WebInv, Grows
<1>7. /\ chain'[c].at = "poll" /\ chain'[c].of = v /\ chain'[c].kind = k
      /\ chain'[c].reply = r /\ chain' \in [Chains -> Chain]
      /\ \A d \in Chains : d # c => chain'[d] = chain[d]
  BY <1>0, <1>1, <1>3, AnswerCheck, OneHears DEF WebInv
<1>8. TypeOK'
  BY <1>1, <1>6, <1>7 DEF WebInv, TypeOK
<1>9. PageInv'
  BY <1>1, <1>3, <1>6, CheckStaysEarned, VersionStaysEarned DEF WebInv, PageInv
<1>10. ASSUME NEW w \in Versions, rtl'[w] # None,
              rtl'[w].verification = "running", w \notin lost'
       PROVE  ~Unwatched(w)'
  <2>1. rtl[w] # None /\ rtl[w].verification = "running" /\ w \notin lost
    BY <1>1, <1>4, <1>5, <1>10
  <2>2. ASSUME Watching(c, w)
        PROVE  Watching(c, w)'
    <3>1. w = v /\ k = "verification"
      BY <1>0, <2>2 DEF Watching
    <3>2. answered /\ ~Awaited(k, v)
      <4>1. k \in rtl[v].held
        BY <1>0, <2>1, <3>1 DEF WebInv, PageInv, RecordIsEarned
      <4>2. Submittable(k, v)
        BY <3>1 DEF Submittable
      <4> QED  BY <1>4, <1>10, <3>1, <4>1, <4>2
    <3>3. run[v][k] \notin Terminal
      BY <2>1, <3>1, <3>2 DEF Awaited
    <3>4. r.ok /\ r.status = run[v][k]
      BY <1>3, <3>2 DEF Accepted
    <3> QED  BY <1>7, <3>1, <3>3, <3>4 DEF Watching, Terminal
  <2> QED  BY <1>7, <2>1, <2>2, StaysWatched DEF WebInv
<1> QED  BY <1>8, <1>9, <1>10 DEF WebInv, VerificationIsWatched, Unwatched

LEMMA FailsStep ==
    ASSUME WebInv, NEW c \in Chains, Fails(c)
    PROVE  WebInv'
<1>1. /\ chain[c].at \in {"get", "create", "submit", "poll"}
      /\ lost' = lost \cup Undone(c)
      /\ UNCHANGED <<rtl, run, version>>
  BY DEF Fails
<1>2. Undone(c) \subseteq Versions
  BY ChainFields DEF WebInv, Undone, Check
<1>3. /\ chain' \in [Chains -> Chain]
      /\ \A d \in Chains : d # c => chain'[d] = chain[d]
      /\ ChainIsEarned(c)'
  <2>1. ASSUME chain[c].at \in {"get", "create"}
        PROVE  /\ chain' \in [Chains -> Chain]
               /\ \A d \in Chains : d # c => chain'[d] = chain[d]
               /\ ChainIsEarned(c)'
    <3>1. Answer(c, [ok |-> FALSE, copy |-> None])
      BY <2>1 DEF Fails
    <3>2. [ok |-> FALSE, copy |-> None] \in FetchReply
      BY DEF FetchReply
    <3>3. /\ chain'[c].at = chain[c].at /\ chain'[c].of = chain[c].of
          /\ chain'[c].reply.ok = FALSE /\ chain' \in [Chains -> Chain]
      BY <2>1, <3>1, <3>2, AnswerFetch DEF WebInv
    <3> QED  BY <1>1, <3>1, <3>3, OneHears
             DEF WebInv, PageInv, ChainIsEarned, Hearable
  <2>2. ASSUME chain[c].at \in {"submit", "poll"}
        PROVE  /\ chain' \in [Chains -> Chain]
               /\ \A d \in Chains : d # c => chain'[d] = chain[d]
               /\ ChainIsEarned(c)'
    <3>1. Answer(c, Refused) /\ Refused \in CheckReply
      BY <2>2 DEF Fails, Refused, CheckReply
    <3>2. /\ chain'[c].at = chain[c].at /\ chain'[c].of = chain[c].of
          /\ chain' \in [Chains -> Chain]
      BY <2>2, <3>1, AnswerCheck DEF WebInv
    <3> QED  BY <1>1, <2>2, <3>1, <3>2, OneHears
             DEF WebInv, PageInv, ChainIsEarned
  <2> QED  BY <1>1, <2>1, <2>2
<1>4. TypeOK'
  BY <1>1, <1>2, <1>3 DEF WebInv, TypeOK
<1>5. PageInv'
  BY <1>1, <1>3, RecordsStayEarned, ChainsStayEarned, VersionStaysEarned
     DEF WebInv, PageInv
<1>6. ASSUME NEW v \in Versions, rtl[v] # None,
             rtl[v].verification = "running", v \notin lost'
      PROVE  ~Unwatched(v)'
  <2>1. ~Watching(c, v)
    BY <1>1, <1>6 DEF Watching, Undone
  <2> QED  BY <1>1, <1>3, <1>6, <2>1, StaysWatched DEF WebInv
<1> QED  BY <1>1, <1>4, <1>5, <1>6 DEF WebInv, VerificationIsWatched, Unwatched

LEMMA RunEndsStep ==
    ASSUME WebInv, NEW k \in Kinds, NEW v \in Versions, RunEnds(k, v)
    PROVE  WebInv'
<1>1. PICK s \in Terminal : run' = [run EXCEPT ![v][k] = s]
  BY DEF RunEnds
<1>2. run[v][k] = "active" /\ UNCHANGED <<rtl, version, chain, lost>>
  BY DEF RunEnds
<1>3. run \in [Versions -> [Kinds -> {"none", "active"} \cup Terminal]]
  BY DEF WebInv, TypeOK
<1>4. /\ run' \in [Versions -> [Kinds -> {"none", "active"} \cup Terminal]]
      /\ run'[v][k] = s
      /\ \A j \in Kinds, w \in Versions : j # k \/ w # v => run'[w][j] = run[w][j]
  BY <1>1, <1>3
<1>5. Grows
  BY <1>2, <1>4 DEF Grows, Terminal
<1>6. TypeOK'
  BY <1>2, <1>4 DEF WebInv, TypeOK
<1>7. \A w \in Versions : RecordIsEarned(w)'
  <2> SUFFICES ASSUME NEW w \in Versions, rtl[w] # None, NEW j \in Kinds
               PROVE  /\ Earned(rtl[w][j], j, w)'
                      /\ rtl[w][j] = "running" => j \in rtl[w].held
                      /\ j \in rtl[w].held => run'[w][j] # "none"
    BY <1>2 DEF RecordIsEarned
  <2>1. /\ Earned(rtl[w][j], j, w)
        /\ rtl[w][j] = "running" => j \in rtl[w].held
        /\ j \in rtl[w].held => run[w][j] # "none"
    BY DEF WebInv, PageInv, RecordIsEarned
  <2> QED  BY <1>2, <1>4, <2>1 DEF Earned, Terminal
<1>8. PageInv'
  BY <1>2, <1>5, <1>7, ChainStaysEarned, VersionStaysEarned DEF WebInv, PageInv
<1>9. VerificationIsWatched'
  BY <1>2 DEF WebInv, VerificationIsWatched, Unwatched, Watching
<1> QED  BY <1>6, <1>8, <1>9 DEF WebInv

-----------------------------------------------------------------------------
(* The page's handler replaces its chain by a request for an existing      *)
(* version, and does not stop watching.                                    *)
LEMMA PageMoves ==
    ASSUME WebInv, NEW c \in Chains, NEW r \in Chain, Then(c, r),
           r.at \in {"idle", "get", "poll", "evidence", "timer"},
           r.at # "idle" => r.reply = None /\ rtl[r.of] # None,
           UNCHANGED <<rtl, run, lost>>,
           version' \in {None} \cup Copy,
           version' # None => CopyIsEarned(version'),
           \A v \in Versions : rtl[v] # None /\ rtl[v].verification = "running"
                               /\ Watching(c, v) => Watching(c, v)'
    PROVE  WebInv'
<1>1. /\ chain'[c] = r
      /\ \A d \in Chains : d # c => chain'[d] = chain[d]
      /\ chain' \in [Chains -> Chain]
  BY OneMoves DEF WebInv
<1>2. TypeOK'
  BY <1>1 DEF WebInv, TypeOK
<1>3. ChainIsEarned(c)'
  BY <1>1 DEF ChainIsEarned, Hearable
<1>4. VerdictsShownAreEarned'
  BY DEF VerdictsShownAreEarned, CopyIsEarned, Earned
<1>5. PageInv'
  BY <1>1, <1>3, <1>4, RecordsStayEarned, ChainsStayEarned DEF WebInv, PageInv
<1>6. ASSUME NEW v \in Versions
      PROVE  ~Unwatched(v)'
  BY <1>1, StaysWatched DEF WebInv, Unwatched
<1> QED  BY <1>2, <1>5, <1>6 DEF WebInv, VerificationIsWatched

LEMMA ShowStep ==
    ASSUME WebInv, NEW c \in Chains, Show(c)
    PROVE  WebInv'
<1>0. /\ version \in {None} \cup Copy
      /\ version # None => CopyIsEarned(version) /\ rtl[version.id] # None
                           /\ version.id \in Versions
  BY DEF WebInv, TypeOK, PageInv, VerdictsShownAreEarned, CopyIsEarned, Copy
<1>1. chain[c].at \in {"submit", "poll", "evidence", "timer"} =>
         /\ chain[c].of \in Versions /\ chain[c].kind \in Kinds
         /\ rtl[chain[c].of] # None
  BY ChainFields DEF WebInv, PageInv, ChainIsEarned, Check
<1>2. CASE ShowError(c)
  <2>1. PICK at \in {"get", "create", "submit", "poll"} : Hears(c, at, FALSE)
    BY <1>2 DEF ShowError
  <2>2. \A v \in Versions : ~Watching(c, v)
    BY <2>1 DEF Hears, Watching
  <2>3. Idle \in Chain /\ Idle.at = "idle"
    BY DEF Idle, Chain
  <2> QED  BY <1>0, <1>2, <2>2, <2>3, PageMoves DEF ShowError
<1>3. CASE ShowVersion(c) \/ ShowCreated(c)
  <2> DEFINE copy == chain[c].reply.copy
  <2>1. /\ chain[c].at \in {"get", "create"} /\ Hearable(c)
        /\ version' = copy /\ UNCHANGED <<rtl, run, lost>>
    BY <1>3 DEF ShowVersion, ShowCreated, Hears, Hearable
  <2>2. copy # None /\ CopyIsEarned(copy)
    BY <2>1 DEF WebInv, PageInv, ChainIsEarned
  <2>3. copy \in Copy /\ copy.id \in Versions /\ rtl[copy.id] # None
    BY <2>1, <2>2, ChainFields
       DEF WebInv, Hearable, Fetch, FetchReply, Copy, CopyIsEarned
  <2>4. \A v \in Versions : ~Watching(c, v)
    BY <2>1 DEF Watching
  <2>5. Then(c, Idle) \/ Then(c, Get(copy.id))
    BY <1>3, <2>1 DEF ShowVersion, ShowCreated
  <2>6. /\ Idle \in Chain /\ Idle.at = "idle"
        /\ Get(copy.id) \in Chain /\ Get(copy.id).at = "get"
        /\ Get(copy.id).reply = None /\ Get(copy.id).of = copy.id
    BY <2>3 DEF Idle, Get, Chain, Fetch
  <2>7. version' \in {None} \cup Copy /\ CopyIsEarned(version')
    BY <2>1, <2>2, <2>3
  <2> QED  BY <2>1, <2>3, <2>4, <2>5, <2>6, <2>7, PageMoves
<1>4. ASSUME NEW at \in {"poll", "evidence", "timer"},
             chain[c].at \in {"submit", "poll", "timer"},
             Then(c, Request(at, chain[c].kind, chain[c].of)),
             UNCHANGED <<rtl, run, version, lost>>,
             at = "evidence" => chain[c].reply # None
                                /\ chain[c].reply.status \in Terminal
      PROVE  WebInv'
  <2> DEFINE r == Request(at, chain[c].kind, chain[c].of)
  <2>1. /\ r \in Chain /\ r.at = at /\ r.reply = None
        /\ r.of = chain[c].of /\ r.kind = chain[c].kind
    BY <1>1, <1>4 DEF Request, Chain, Check
  <2>2. chain'[c] = r
    BY <1>4, <2>1, OneMoves DEF WebInv
  <2>3. \A v \in Versions : Watching(c, v) => Watching(c, v)'
    BY <1>4, <2>1, <2>2 DEF Watching
  <2> QED  BY <1>0, <1>1, <1>4, <2>1, <2>3, PageMoves
<1>5. CASE ShowSubmitted(c) \/ Timer(c)
  BY <1>4, <1>5 DEF ShowSubmitted, Timer, Hears
<1>6. CASE ShowRun(c)
  BY <1>4, <1>6 DEF ShowRun, Hears, AfterPoll
<1>7. CASE ShowEvidence(c)
  <2>1. \A v \in Versions : ~Watching(c, v)
    BY <1>7 DEF ShowEvidence, Watching
  <2>2. Then(c, Idle) \/ (version # None /\ Then(c, Get(version.id)))
    BY <1>7 DEF ShowEvidence
  <2>3. /\ Idle \in Chain /\ Idle.at = "idle"
        /\ version # None =>
              /\ Get(version.id) \in Chain /\ Get(version.id).at = "get"
              /\ Get(version.id).reply = None /\ Get(version.id).of = version.id
    BY <1>0 DEF Idle, Get, Chain, Fetch
  <2> QED  BY <1>0, <1>7, <2>1, <2>2, <2>3, PageMoves DEF ShowEvidence
<1> QED  BY <1>2, <1>3, <1>5, <1>6, <1>7 DEF Show

LEMMA ReopenStep ==
    ASSUME WebInv, Reopen
    PROVE  WebInv'
<1>1. /\ chain' = [c \in Chains |-> Idle] /\ version' = None
      /\ lost' = lost \cup UNION {Undone(c) : c \in Chains}
      /\ UNCHANGED <<rtl, run>>
  BY DEF Reopen
<1>2. \A c \in Chains : Undone(c) \subseteq Versions
  BY ChainFields DEF WebInv, Undone, Check
<1>3. TypeOK'
  BY <1>1, <1>2 DEF WebInv, TypeOK, Chain
<1>4. PageInv'
  BY <1>1, RecordsStayEarned
     DEF WebInv, PageInv, VerdictsShownAreEarned, ChainIsEarned, Idle
<1>5. ASSUME NEW v \in Versions, rtl[v] # None,
             rtl[v].verification = "running", v \notin lost'
      PROVE  FALSE
  <2>1. PICK d \in Chains : Watching(d, v)
    BY <1>1, <1>5 DEF WebInv, VerificationIsWatched, Unwatched
  <2>2. v \in Undone(d)
    BY <2>1 DEF Watching, Undone
  <2> QED  BY <1>1, <1>5, <2>2
<1> QED  BY <1>1, <1>3, <1>4, <1>5 DEF WebInv, VerificationIsWatched, Unwatched

-----------------------------------------------------------------------------
(* The inductive invariant of the page and its server.                     *)
THEOREM PageInvariant == Spec => []WebInv
<1>1. Init => WebInv
  BY DEF Init, WebInv, TypeOK, PageInv, RecordIsEarned, ChainIsEarned, Idle,
         Chain, VerdictsShownAreEarned, VerificationIsWatched, Unwatched
<1>2. WebInv /\ [Next]_vars => WebInv'
  <2> SUFFICES ASSUME WebInv, [Next]_vars
               PROVE  WebInv'
    OBVIOUS
  <2>1. ASSUME NEW c \in Chains, User(c) \/ Serve(c) \/ Fails(c) \/ Show(c)
        PROVE  WebInv'
    BY <2>1, UserStep, ServeGetStep, ServeCreateStep, ServeSubmitStep,
       ServePollStep, FailsStep, ShowStep DEF Serve
  <2>2. ASSUME NEW k \in Kinds, NEW v \in Versions, RunEnds(k, v)
        PROVE  WebInv'
    BY <2>2, RunEndsStep
  <2>3. CASE UNCHANGED vars
    BY <2>3 DEF vars, WebInv, TypeOK, PageInv, RecordIsEarned, ChainIsEarned,
                Hearable, CopyIsEarned, Earned, VerdictsShownAreEarned,
                VerificationIsWatched, Unwatched, Watching
  <2> QED  BY <2>1, <2>2, <2>3, ReopenStep DEF Next
<1> QED  BY <1>1, <1>2, PTL DEF Spec

(* However replies are reordered, a verdict on the page is that of the run *)
(* of the version it is shown for.                                         *)
THEOREM ShownIsEarned == Spec => []VerdictsShownAreEarned
<1>1. WebInv => VerdictsShownAreEarned
  BY DEF WebInv, PageInv
<1> QED  BY <1>1, PageInvariant, PTL

(* A version under verification has a chain that polls it, unless one of   *)
(* its own requests failed or the page was left.                           *)
THEOREM NoneUnwatched == Spec => []VerificationIsWatched
<1>1. WebInv => VerificationIsWatched
  BY DEF WebInv
<1> QED  BY <1>1, PageInvariant, PTL

-----------------------------------------------------------------------------
(* The page climbs the ladder: a submission that finds no run begins a     *)
(* rung, the end of a run ends it, and no other step concerns v2.          *)
RungOf(k) == IF k = "verification" THEN "verify" ELSE "sim"

LEMMA StageIs ==
    ASSUME NEW v \in Versions, NEW k \in Kinds
    PROVE  /\ stageOf[v][RungOf(k)] = run[v][k]
           /\ RungOf(k) \in Abstract!Rungs
BY DEF stageOf, RungOf, Kinds, Abstract!Rungs

LEMMA StageExcept ==
    ASSUME TypeOK, NEW v \in Versions, NEW k \in Kinds, NEW s,
           run' = [run EXCEPT ![v][k] = s]
    PROVE  stageOf' = [stageOf EXCEPT ![v][RungOf(k)] = s]
<1>1. \A w \in Versions, j \in Kinds : run'[w][j] = IF w = v /\ j = k THEN s ELSE run[w][j]
  BY DEF TypeOK
<1>2. CASE k = "verification"
  BY <1>1, <1>2 DEF stageOf, RungOf, Kinds
<1>3. CASE k = "simulation"
  BY <1>1, <1>3 DEF stageOf, RungOf, Kinds
<1> QED  BY <1>2, <1>3 DEF Kinds

LEMMA SubmitBegins ==
    ASSUME WebInv, NEW c \in Chains, ServeSubmit(c)
    PROVE  \/ UNCHANGED run
           \/ \E v \in Versions, k \in Abstract!Rungs : Abstract!Begin(v, k)
<1> DEFINE k == chain[c].kind
           v == chain[c].of
<1>1. k \in Kinds /\ v \in Versions /\ rtl[v] # None
  BY ChainFields DEF ServeSubmit, Waits, WebInv, PageInv, ChainIsEarned, Check
<1>2. UNCHANGED run \/ (Submittable(k, v) /\ Admit(k, v))
  BY DEF ServeSubmit
<1> HIDE DEF k, v
<1>3. CASE Submittable(k, v) /\ Admit(k, v) /\ run[v][k] = "none"
  <2>1. stageOf' = [stageOf EXCEPT ![v][RungOf(k)] = "active"]
    <3>1. run' = [run EXCEPT ![v][k] = "active"]
      BY <1>1, <1>3 DEF Admit, WebInv, TypeOK
    <3> QED  BY <1>1, <3>1, StageExcept DEF WebInv
  <2>2. \A j \in Abstract!Below(RungOf(k)) : stageOf[v][j] = "succeeded"
    <3>1. CASE k = "verification"
      BY <3>1 DEF Abstract!Below, RungOf
    <3>2. CASE k = "simulation"
      <4>1. run[v]["verification"] = "succeeded"
        BY <1>1, <1>3, <3>2 DEF Submittable, WebInv, PageInv, RecordIsEarned, Earned, Kinds
      <4> QED  BY <1>1, <3>2, <4>1 DEF Abstract!Below, RungOf, stageOf
    <3> QED  BY <1>1, <3>1, <3>2 DEF Kinds
  <2>3. stageOf[v][RungOf(k)] = "none" /\ RungOf(k) \in Abstract!Rungs
    BY <1>1, <1>3, StageIs
  <2>4. Abstract!Begin(v, RungOf(k))
    BY <2>1, <2>2, <2>3 DEF Abstract!Begin
  <2> QED  BY <1>1, <2>3, <2>4
<1>4. CASE Admit(k, v) /\ run[v][k] # "none"
  BY <1>1, <1>4 DEF Admit, WebInv, TypeOK
<1> QED  BY <1>2, <1>3, <1>4

LEMMA RunEndsRung ==
    ASSUME WebInv, NEW k \in Kinds, NEW v \in Versions, RunEnds(k, v)
    PROVE  Abstract!End(v, RungOf(k))
<1>1. PICK status \in Terminal : run' = [run EXCEPT ![v][k] = status]
  BY DEF RunEnds
<1>2. stageOf' = [stageOf EXCEPT ![v][RungOf(k)] = status]
  BY <1>1, StageExcept DEF WebInv
<1>3. stageOf[v][RungOf(k)] = "active"
  BY StageIs DEF RunEnds
<1>4. status \in Abstract!Ends(RungOf(k))
  BY DEF Abstract!Ends, Terminal, RungOf
<1> QED  BY <1>2, <1>3, <1>4 DEF Abstract!End

LEMMA ClimbStep == WebInv /\ [Next]_vars => [Abstract!LadderNext]_(Abstract!ladderVars)
<1> SUFFICES ASSUME WebInv, [Next]_vars
             PROVE  Abstract!LadderNext \/ UNCHANGED stageOf
  BY DEF Abstract!ladderVars
<1>1. CASE UNCHANGED run
  BY <1>1 DEF stageOf
<1>2. ASSUME NEW c \in Chains, ServeSubmit(c)
      PROVE  Abstract!LadderNext \/ UNCHANGED stageOf
  BY <1>1, <1>2, SubmitBegins DEF Abstract!LadderNext
<1>3. ASSUME NEW k \in Kinds, NEW v \in Versions, RunEnds(k, v)
      PROVE  Abstract!LadderNext
  BY <1>3, RunEndsRung, StageIs DEF Abstract!LadderNext
<1>4. ASSUME NEW c \in Chains, User(c) \/ Fails(c) \/ Show(c) \/ ServeGet(c) \/ ServeCreate(c) \/ ServePoll(c)
      PROVE  UNCHANGED run
  BY <1>4 DEF User, Select, Generate, NewVersion, Verify, Simulate, Start, Fails, Show, ShowError,
     ShowVersion, ShowCreated, ShowSubmitted, ShowRun, Timer, ShowEvidence, ServeGet, ServeCreate, ServePoll
<1>5. CASE Reopen \/ UNCHANGED vars
  BY <1>1, <1>5 DEF Reopen, vars
<1> QED  BY <1>1, <1>2, <1>3, <1>4, <1>5 DEF Next, Serve

(* Whatever is clicked, the page's runs climb the ladder of M1.            *)
THEOREM PageClimbs == Spec => ClicksClimbTheLadder
<1>1. Init => Abstract!LadderInit
  BY DEF Init, stageOf, Abstract!LadderInit, Abstract!Rungs, Kinds
<1> QED
  BY <1>1, PageInvariant, ClimbStep, PTL DEF Spec, ClicksClimbTheLadder, Abstract!LadderSpec
=============================================================================
