------------------------- MODULE ResultsStore_proofs -------------------------
(***************************************************************************)
(* Proofs about ResultsStore, for every set of jobs, processes and pipes,  *)
(* every number of retries and of faults: a final status is backed by list *)
(* and result, what is deleted stays out, statuses move forward.           *)
(***************************************************************************)
EXTENDS ResultsStore, SequenceTheorems, TLAPS

-----------------------------------------------------------------------------
(* Commands, and where they stand in a pipe                                *)

Command ==
  [op : {"message"}, j : Jobs, msg : Msg]
  \cup [op : {"result", "late"}, j : Jobs]
  \cup [op : {"add"}, j : Jobs, list : Lists, score : 0 .. Horizon]
  \cup [op : {"purge"}, list : Lists, score : 0 .. Horizon]

Of(j, op)  == {c \in Command : c.op = op /\ c.op # "purge" /\ c.j = j}
Msgs(j)    == Of(j, "message")
Results(j) == Of(j, "result")
Adds(j)    == Of(j, "add")
Finals(j)  == {c \in Msgs(j) : c.msg.status \in Final}

Cmds(p) == ToSet(pipe[p])

(* Every element of A stands before every element of B.                    *)
Before(s, A, B) == \A i, k \in DOMAIN s : s[i] \in A /\ s[k] \in B => i < k

(* After every element of A comes one of B.                                *)
Followed(s, A, B) == \A i \in DOMAIN s : s[i] \in A => \E k \in DOMAIN s : i < k /\ s[k] \in B

(* The statuses in a pipe are in the order a job goes through them.        *)
Ascending(s, j) == \A i, k \in DOMAIN s :
  i < k /\ s[i] \in Msgs(j) /\ s[k] \in Msgs(j) => Rank(s[i].msg) < Rank(s[k].msg)

-----------------------------------------------------------------------------
(* The inductive invariant                                                 *)

(* The list of a job has been decided on.                                  *)
Decided(j) == job[j].verdict \in Final

(* The final status of j was written, or is about to be.                   *)
Seen(j)  == msg[j].status \in Final \/ delete[j] # "none"
Coming(j) == \E p \in Procs : Cmds(p) \cap Finals(j) # {}

TInv ==
  /\ TypeOK /\ pipe \in [Procs -> Seq(Command)]
  /\ \A j \in Jobs :
       /\ job[j].pc \in {"new", "queued"} => job[j].at = None
       /\ job[j].pc \in {"running", "saved", "listed", "end"} => job[j].at \in Procs
       /\ job[j].pc \in {"new", "queued", "running", "saved"} => ~Decided(j)
       /\ job[j].pc \in {"listed", "end"} => Decided(j)
       /\ job[j].kept => job[j].verdict = "successful"

(* A purge is of entries that are old enough, and a result that comes late *)
(* is of a handler its worker left behind.                                 *)
Due(c) ==
  /\ c.op = "purge" => Purgers # {} /\ c.score + MetaExpiry <= now
  /\ c.op = "late" => Overran(c.j)

Besides ==
  /\ \A p \in Procs : purge[p].to # 0 => p \in Purgers /\ purge[p].to + MetaExpiry <= now
  /\ \A p \in Procs : \A c \in Cmds(p) : Due(c)

(* A job is listed once, in one list, and its status follows from there.   *)
ListedOnce(j) ==
  LET e == job[j] IN
  /\ ~Decided(j) =>
       /\ ~Seen(j) /\ \A l \in Lists : zset[l][j] = 0
       /\ \A p \in Procs : Cmds(p) \cap (Adds(j) \cup Finals(j)) = {}
  /\ Decided(j) =>
       /\ e.at \in Procs /\ e.since > 0
       /\ msg[j].status \in Final => msg[j].status = e.verdict /\ msg[j].since = e.since
       /\ \A l \in Lists : zset[l][j] \in (IF Verdict(l) = e.verdict THEN {0, e.since} ELSE {0})
       /\ \A p \in Procs \ {e.at} : Cmds(p) \cap (Adds(j) \cup Finals(j)) = {}
       /\ \A c \in Cmds(e.at) \cap Adds(j) : Verdict(c.list) = e.verdict /\ c.score = e.since
       /\ \A c \in Cmds(e.at) \cap Finals(j) : c.msg.status = e.verdict /\ c.msg.since = e.since

(* Commands of one process keep their order: list and result come first.   *)
InOrder(j) ==
  /\ \A p \in Procs : Before(pipe[p], Adds(j) \cup Results(j), Finals(j))
  /\ Seen(j) => \A p \in Procs : Cmds(p) \cap Adds(j) = {}
  /\ msg[j].status \in Final => Cmds(job[j].at) \cap Results(j) = {}

(* What was written for a job is in the store or on its way: unless it was *)
(* deleted, purged or lost with a pipe.                                    *)
Good(j)    == delete[j] = "none" /\ (job[j].at \in piped => faults = 0)
HasResult(j) == j \in result \/ Cmds(job[j].at) \cap Results(j) # {}
HasEntry(j) ==
  \/ \E l \in Lists : Verdict(l) = job[j].verdict /\ zset[l][j] # 0
  \/ Cmds(job[j].at) \cap Adds(j) # {}
  \/ Purgers # {} /\ job[j].since + MetaExpiry <= now

Backing(j) == Good(j) =>
  /\ job[j].pc = "saved" \/ job[j].kept => HasResult(j)
  /\ job[j].pc \in {"listed", "end"} \/ msg[j].status \in Final \/ Coming(j) => HasEntry(j)

Deleted(j) ==
  /\ delete[j] \in {"failed", "result", "ok"} => zset["success"][j] = 0
  /\ delete[j] \in {"result", "ok"} => zset["failed"][j] = 0

(* Unless statuses raced, a process is done with a job when another one    *)
(* writes the status.                                                      *)
NoRace(j) == j \notin raced =>
  /\ \A p \in Procs \ {job[j].at} : Followed(pipe[p], Results(j), Msgs(j))
  /\ \A p, q \in Procs : p # q => Cmds(p) \cap Msgs(j) = {} \/ Cmds(q) \cap Msgs(j) = {}
  /\ \A p, q \in Procs : p # q => Cmds(p) \cap Finals(j) = {} \/ Cmds(q) \cap Results(j) = {}
  /\ Seen(j) => \A p \in Procs : Cmds(p) \cap Results(j) = {}
  /\ delete[j] = "ok" /\ ~Overran(j) => j \notin result

(* The rank of the last status that was written.                           *)
RankOf(e) ==
  CASE e.pc = "new" -> 0
    [] e.pc = "queued" -> 2 * e.n + 1
    [] e.pc \in {"running", "saved", "listed"} -> 2 * e.n + 2
    [] e.pc = "end" -> 2 * Retries + 3
    [] OTHER -> 2 * Retries + 4

JobRank(j) == RankOf(job[j])

Forward(j) ==
  /\ Rank(msg[j]) <= JobRank(j)
  /\ \A p \in Procs : \A c \in Cmds(p) \cap Msgs(j) : Rank(c.msg) <= JobRank(j)
  /\ j \notin raced =>
       \A p \in Procs : /\ Ascending(pipe[p], j)
                        /\ \A c \in Cmds(p) \cap Msgs(j) : Rank(msg[j]) < Rank(c.msg)

JInv(j) ==
  ListedOnce(j) /\ InOrder(j) /\ Backing(j) /\ Deleted(j) /\ NoRace(j) /\ Forward(j)

IInv == TInv /\ Besides /\ \A j \in Jobs : JInv(j)

-----------------------------------------------------------------------------
(* Commands in a sequence                                                  *)

LEMMA ToSetHas == ASSUME NEW s, NEW x PROVE x \in ToSet(s) <=> \E i \in DOMAIN s : s[i] = x
BY DEF ToSet

LEMMA NoCommands ==
  /\ <<>> \in Seq(Command) /\ ToSet(<<>>) = {}
  /\ \A A, B : Before(<<>>, A, B) /\ Followed(<<>>, A, B)
  /\ \A j : Ascending(<<>>, j)
BY DEF ToSet, Before, Followed, Ascending

(* What Append does to the order of commands (Buffer).                     *)
LEMMA Appended ==
  ASSUME NEW s \in Seq(Command), NEW c \in Command
  PROVE  LET t == Append(s, c) IN
         /\ t \in Seq(Command) /\ ToSet(t) = ToSet(s) \cup {c}
         /\ \A A, B : Before(s, A, B) /\ (c \in A => c \notin B /\ ToSet(s) \cap B = {}) => Before(t, A, B)
         /\ \A A, B : c \in B /\ c \notin A => Followed(t, A, B)
         /\ \A A, B : Followed(s, A, B) /\ c \notin A => Followed(t, A, B)
         /\ \A j : /\ Ascending(s, j)
                   /\ c \in Msgs(j) => \A d \in ToSet(s) \cap Msgs(j) : Rank(d.msg) < Rank(c.msg)
                   => Ascending(t, j)
<1>0. PICK t, n : t = Append(s, c) /\ n = Len(s)
  OBVIOUS
<1>1. /\ t \in Seq(Command) /\ n \in Nat
      /\ DOMAIN t = 1 .. n + 1 /\ DOMAIN s = 1 .. n
      /\ t[n + 1] = c /\ \A i \in 1 .. n : t[i] = s[i] /\ s[i] \in ToSet(s)
  BY <1>0, ToSetHas
<1>2. \A i \in DOMAIN t : i = n + 1 \/ i \in DOMAIN s
  BY <1>1
<1>3. ToSet(t) = ToSet(s) \cup {c}
  <2>1. ASSUME NEW x PROVE x \in ToSet(t) <=> x \in ToSet(s) \cup {c}
    BY <1>1, <1>2, ToSetHas
  <2>. QED
    BY <2>1
<1>4. ASSUME NEW A, NEW B, Before(s, A, B), c \in A => c \notin B /\ ToSet(s) \cap B = {}
      PROVE  Before(t, A, B)
  BY <1>1, <1>2, <1>4 DEF Before
<1>5. ASSUME NEW A, NEW B, c \in B, c \notin A PROVE Followed(t, A, B)
  BY <1>1, <1>2, <1>5 DEF Followed
<1>6. ASSUME NEW A, NEW B, Followed(s, A, B), c \notin A PROVE Followed(t, A, B)
  BY <1>1, <1>2, <1>6 DEF Followed
<1>7. ASSUME NEW j, Ascending(s, j),
             c \in Msgs(j) => \A d \in ToSet(s) \cap Msgs(j) : Rank(d.msg) < Rank(c.msg)
      PROVE  Ascending(t, j)
  <2> SUFFICES ASSUME NEW i \in DOMAIN t, NEW k \in DOMAIN t, i < k, t[i] \in Msgs(j), t[k] \in Msgs(j)
               PROVE  Rank(t[i].msg) < Rank(t[k].msg)
    BY DEF Ascending
  <2>1. i \in DOMAIN s /\ t[i] = s[i] /\ s[i] \in ToSet(s)
    BY <1>1
  <2>2. CASE k = n + 1
    BY <1>1, <1>7, <2>1, <2>2
  <2>3. CASE k \in DOMAIN s
    BY <1>1, <1>7, <2>1, <2>3 DEF Ascending
  <2>. QED
    BY <1>2, <2>2, <2>3
<1>. QED
  BY <1>0, <1>1, <1>3, <1>4, <1>5, <1>6, <1>7

(* And what taking the first one does (execPipe).                          *)
LEMMA TakenOff ==
  ASSUME NEW s \in Seq(Command), s # <<>>
  PROVE  LET t == Tail(s)  h == Head(s) IN
         /\ t \in Seq(Command) /\ h \in Command /\ ToSet(s) = ToSet(t) \cup {h}
         /\ \A A, B : Before(s, A, B) => Before(t, A, B) /\ (h \in B => ToSet(s) \cap A = {})
         /\ \A A, B : Followed(s, A, B) => Followed(t, A, B) /\ (h \in A => ToSet(t) \cap B # {})
         /\ \A j : Ascending(s, j) =>
              /\ Ascending(t, j)
              /\ h \in Msgs(j) => \A d \in ToSet(t) \cap Msgs(j) : Rank(h.msg) < Rank(d.msg)
<1>0. PICK t, h, n : t = Tail(s) /\ h = Head(s) /\ n = Len(t)
  OBVIOUS
<1>1. /\ t \in Seq(Command) /\ h \in Command /\ n \in Nat
      /\ DOMAIN s = 1 .. n + 1 /\ DOMAIN t = 1 .. n
      /\ s[1] = h /\ \A i \in 1 .. n : t[i] = s[i + 1] /\ i + 1 \in DOMAIN s /\ t[i] \in ToSet(t)
  <2>1. /\ t \in Seq(Command) /\ h \in Command /\ n \in Nat /\ Len(s) = n + 1
        /\ s[1] = h /\ \A i \in 1 .. n : t[i] = s[i + 1]
    BY <1>0, HeadTailProperties, EmptySeq
  <2>2. DOMAIN s = 1 .. n + 1 /\ DOMAIN t = 1 .. n
    BY <1>0, <2>1
  <2>. QED
    BY <2>1, <2>2, ToSetHas
<1>2. \A i \in DOMAIN s : i = 1 \/ (i - 1 \in DOMAIN t /\ s[i] = t[i - 1])
  <2>1. ASSUME NEW i \in DOMAIN s, i # 1 PROVE i - 1 \in 1 .. n /\ (i - 1) + 1 = i
    BY <1>1, <2>1
  <2>2. ASSUME NEW i \in DOMAIN s, i # 1 PROVE i - 1 \in DOMAIN t /\ s[i] = t[i - 1]
    BY <1>1, <2>1, <2>2
  <2>. QED
    BY <2>2
<1>3. ToSet(s) = ToSet(t) \cup {h}
  <2>1. ASSUME NEW x \in ToSet(s) PROVE x \in ToSet(t) \cup {h}
    <3>1. PICK i \in DOMAIN s : s[i] = x
      BY ToSetHas
    <3>2. CASE i = 1
      BY <1>1, <3>1, <3>2
    <3>3. CASE i # 1
      BY <1>1, <1>2, <3>1, <3>3
    <3>. QED
      BY <3>2, <3>3
  <2>2. ASSUME NEW x \in ToSet(t) PROVE x \in ToSet(s)
    <3>1. PICK k \in DOMAIN t : t[k] = x
      BY ToSetHas
    <3>2. k + 1 \in DOMAIN s /\ s[k + 1] = x
      BY <1>1, <3>1
    <3>. QED
      BY <3>2, ToSetHas
  <2>3. 1 \in DOMAIN s
    BY <1>1
  <2>4. h \in ToSet(s)
    BY <1>1, <2>3, ToSetHas
  <2>. QED
    BY <2>1, <2>2, <2>4
<1>4. ASSUME NEW A, NEW B, Before(s, A, B) PROVE Before(t, A, B) /\ (h \in B => ToSet(s) \cap A = {})
  <2>1. Before(t, A, B)
    BY <1>1, <1>4 DEF Before
  <2>2. ASSUME h \in B, NEW x \in ToSet(s) \cap A PROVE FALSE
    <3>1. PICK i \in DOMAIN s : s[i] = x
      BY <2>2, ToSetHas
    <3>2. i < 1
      BY <1>1, <1>4, <2>2, <3>1 DEF Before
    <3>. QED
      BY <1>1, <3>1, <3>2
  <2>. QED
    BY <2>1, <2>2
<1>5. ASSUME NEW A, NEW B, Followed(s, A, B) PROVE Followed(t, A, B) /\ (h \in A => ToSet(t) \cap B # {})
  <2>1. ASSUME NEW i \in DOMAIN s, s[i] \in A PROVE \E k \in DOMAIN t : i < k + 1 /\ t[k] \in B
    <3>1. PICK k \in DOMAIN s : i < k /\ s[k] \in B
      BY <1>5, <2>1 DEF Followed
    <3>2. k - 1 \in DOMAIN t /\ t[k - 1] = s[k] /\ i < (k - 1) + 1
      BY <1>1, <1>2, <2>1, <3>1
    <3>. QED
      BY <3>1, <3>2
  <2>2. ASSUME NEW i \in DOMAIN t, t[i] \in A PROVE \E k \in DOMAIN t : i < k /\ t[k] \in B
    <3>1. PICK k \in DOMAIN t : i + 1 < k + 1 /\ t[k] \in B
      BY <1>1, <2>1, <2>2
    <3>. QED
      BY <1>1, <3>1
  <2>3. ASSUME h \in A PROVE ToSet(t) \cap B # {}
    <3>1. PICK k \in DOMAIN t : t[k] \in B
      BY <1>1, <2>1, <2>3
    <3>. QED
      BY <1>1, <3>1
  <2>. QED
    BY <2>2, <2>3 DEF Followed
<1>6. ASSUME NEW j, Ascending(s, j)
      PROVE  /\ Ascending(t, j)
             /\ h \in Msgs(j) => \A d \in ToSet(t) \cap Msgs(j) : Rank(h.msg) < Rank(d.msg)
  <2>1. ASSUME NEW i \in DOMAIN t, NEW k \in DOMAIN t, i < k, t[i] \in Msgs(j), t[k] \in Msgs(j)
        PROVE  Rank(t[i].msg) < Rank(t[k].msg)
    <3>1. i + 1 \in DOMAIN s /\ k + 1 \in DOMAIN s /\ i + 1 < k + 1 /\ t[i] = s[i + 1] /\ t[k] = s[k + 1]
      BY <1>1, <2>1
    <3>. QED
      BY <1>6, <2>1, <3>1 DEF Ascending
  <2>2. ASSUME h \in Msgs(j), NEW d \in ToSet(t) \cap Msgs(j) PROVE Rank(h.msg) < Rank(d.msg)
    <3>1. PICK k \in DOMAIN t : t[k] = d
      BY <2>2, ToSetHas
    <3>2. 1 \in DOMAIN s /\ k + 1 \in DOMAIN s /\ 1 < k + 1 /\ s[k + 1] = d
      BY <1>1, <3>1
    <3>. QED
      BY <1>1, <1>6, <2>2, <3>2 DEF Ascending
  <2>. QED
    BY <2>1, <2>2 DEF Ascending
<1>. QED
  BY <1>0, <1>1, <1>3, <1>4, <1>5, <1>6

-----------------------------------------------------------------------------
(* Kinds of commands                                                       *)

(* The commands its workers write for a job; a late result is not one.     *)
Own(j) == Msgs(j) \cup Results(j) \cup Adds(j)

LEMMA Kinds ==
  ASSUME NEW j \in Jobs
  PROVE  /\ Msgs(j) \cap Results(j) = {} /\ Msgs(j) \cap Adds(j) = {} /\ Results(j) \cap Adds(j) = {}
         /\ Finals(j) \subseteq Msgs(j) /\ Own(j) \subseteq Command
         /\ \A k \in Jobs \ {j} : Own(j) \cap Own(k) = {}
         /\ \A c \in Own(j) : c.op \notin {"purge", "late"} /\ c.j = j
         /\ \A c \in Msgs(j) : c.op = "message" /\ c.msg \in Msg
         /\ \A c \in Results(j) : c.op = "result"
         /\ \A c \in Adds(j) : c.op = "add" /\ c.list \in Lists /\ c.score \in 0 .. Horizon
         /\ \A c \in Command : c.op \notin {"purge", "late"} /\ c.j = j => c \in Own(j)
         /\ \A c \in Command : c.op = "purge" => c.list \in Lists /\ c.score \in 0 .. Horizon
         /\ \A c \in Command : c.op # "purge" => c.j \in Jobs
BY DEF Msgs, Results, Adds, Finals, Of, Own, Command

LEMMA Written ==
  ASSUME TInv, NEW j \in Jobs
  PROVE  /\ \A m \in Msg : SetMsg(j, m) \in Msgs(j) /\ SetMsg(j, m).msg = m /\ SetMsg(j, m).j = j
                           /\ SetMsg(j, m).op = "message"
                           /\ (SetMsg(j, m) \in Finals(j) <=> m.status \in Final)
         /\ SetResult(j) \in Results(j) /\ SetResult(j).op = "result" /\ SetResult(j).j = j
         /\ \A l \in Lists : ZAdd(l, j) \in Adds(j) /\ ZAdd(l, j).op = "add" /\ ZAdd(l, j).j = j
                             /\ ZAdd(l, j).list = l /\ ZAdd(l, j).score = now
         /\ \A l \in Lists, to \in 0 .. Horizon :
              ZRemRange(l, to) \in Command \ Own(j) /\ ZRemRange(l, to).op = "purge"
              /\ ZRemRange(l, to).list = l /\ ZRemRange(l, to).score = to
         /\ \A k \in Jobs : LateResult(k) \in Command \ Own(j) /\ LateResult(k).op = "late" /\ LateResult(k).j = k
BY StoreAssumption DEF SetMsg, SetResult, LateResult, ZAdd, ZRemRange, Msgs, Results, Adds, Finals, Of, Own, Command, TInv, TypeOK

-----------------------------------------------------------------------------
(* What commands do                                                        *)

(* The store of job j after command c.                                     *)
Effect(c, j) ==
  /\ msg'[j] = IF c \in Msgs(j) THEN c.msg ELSE msg[j]
  /\ j \in result' <=> j \in result \/ c \in Results(j) \/ (c.op = "late" /\ c.j = j)
  /\ \A l \in Lists :
       zset'[l][j] = IF c \in Adds(j) /\ c.list = l THEN c.score
                     ELSE IF c.op = "purge" /\ c.list = l /\ zset[l][j] <= c.score THEN 0
                     ELSE zset[l][j]

StoreTypes ==
  msg' \in [Jobs -> Msg] /\ result' \subseteq Jobs /\ zset' \in [Lists -> [Jobs -> 0 .. Horizon]]

LEMMA Executes ==
  ASSUME TInv, NEW c \in Command, Execute(c)
  PROVE  StoreTypes /\ \A j \in Jobs : Effect(c, j)
<1>t. msg \in [Jobs -> Msg] /\ result \subseteq Jobs /\ zset \in [Lists -> [Jobs -> 0 .. Horizon]]
  BY DEF TInv, TypeOK
<1>0. c.op \in {"message", "result", "late", "add", "purge"}
  BY DEF Command
<1>1. CASE c.op = "message"
  <2>1. c.j \in Jobs /\ c.msg \in Msg /\ c \in Msgs(c.j)
    BY <1>1 DEF Command, Msgs, Of
  <2>2. msg' = [msg EXCEPT ![c.j] = c.msg] /\ UNCHANGED <<result, zset>>
    BY <1>1 DEF Execute
  <2>3. \A j \in Jobs : (c \in Msgs(j) <=> c.j = j) /\ c \notin Results(j) /\ c \notin Adds(j)
    BY <1>1, <2>1 DEF Command, Msgs, Results, Adds, Of
  <2>. QED
    BY <1>t, <1>1, <2>1, <2>2, <2>3 DEF StoreTypes, Effect
<1>2. CASE c.op = "result"
  <2>1. c.j \in Jobs
    BY <1>2 DEF Command
  <2>2. result' = result \cup {c.j} /\ UNCHANGED <<msg, zset>>
    BY <1>2 DEF Execute
  <2>3. \A j \in Jobs : (c \in Results(j) <=> c.j = j) /\ c \notin Msgs(j) /\ c \notin Adds(j)
    BY <1>2, <2>1 DEF Command, Msgs, Results, Adds, Of
  <2>. QED
    BY <1>t, <1>2, <2>1, <2>2, <2>3 DEF StoreTypes, Effect
<1>5. CASE c.op = "late"
  <2>1. c.j \in Jobs
    BY <1>5 DEF Command
  <2>2. result' = result \cup {c.j} /\ UNCHANGED <<msg, zset>>
    BY <1>5 DEF Execute
  <2>3. \A j \in Jobs : c \notin Results(j) /\ c \notin Msgs(j) /\ c \notin Adds(j)
    BY <1>5 DEF Msgs, Results, Adds, Of
  <2>. QED
    BY <1>t, <1>5, <2>1, <2>2, <2>3 DEF StoreTypes, Effect
<1>3. CASE c.op = "add"
  <2>1. c.j \in Jobs /\ c.list \in Lists /\ c.score \in 0 .. Horizon
    BY <1>3 DEF Command
  <2>2. zset' = [zset EXCEPT ![c.list][c.j] = c.score] /\ UNCHANGED <<msg, result>>
    BY <1>3 DEF Execute
  <2>3. \A j \in Jobs : (c \in Adds(j) <=> c.j = j) /\ c \notin Msgs(j) /\ c \notin Results(j)
    BY <1>3, <2>1 DEF Command, Msgs, Results, Adds, Of
  <2>4. PICK z : z = [zset[c.list] EXCEPT ![c.j] = c.score]
    OBVIOUS
  <2>5. z \in [Jobs -> 0 .. Horizon] /\ zset' = [zset EXCEPT ![c.list] = z]
    BY <1>t, <2>1, <2>2, <2>4
  <2>6. zset' \in [Lists -> [Jobs -> 0 .. Horizon]]
    BY <1>t, <2>1, <2>5
  <2>7. \A l \in Lists, j \in Jobs : zset'[l][j] = IF l = c.list /\ j = c.j THEN c.score ELSE zset[l][j]
    BY <1>t, <2>1, <2>4, <2>5
  <2>. QED
    BY <1>t, <1>3, <2>2, <2>3, <2>6, <2>7 DEF StoreTypes, Effect
<1>4. CASE c.op = "purge"
  <2>1. c.list \in Lists /\ c.score \in 0 .. Horizon
    BY <1>4 DEF Command
  <2>2. PICK z : z = [j \in Jobs |-> IF zset[c.list][j] <= c.score THEN 0 ELSE zset[c.list][j]]
    OBVIOUS
  <2>3. zset' = [zset EXCEPT ![c.list] = z] /\ UNCHANGED <<msg, result>>
    BY <1>4, <2>2 DEF Execute
  <2>4. z \in [Jobs -> 0 .. Horizon]
    <3>1. \A j \in Jobs : zset[c.list][j] \in 0 .. Horizon
      BY <1>t, <2>1
    <3>. QED
      BY <2>2, <3>1, StoreAssumption
  <2>5. zset' \in [Lists -> [Jobs -> 0 .. Horizon]]
    BY <1>t, <2>1, <2>3, <2>4
  <2>6. \A l \in Lists, j \in Jobs : zset'[l][j] = IF l = c.list THEN z[j] ELSE zset[l][j]
    BY <1>t, <2>1, <2>3
  <2>7. \A j \in Jobs : c \notin Msgs(j) /\ c \notin Results(j) /\ c \notin Adds(j)
    BY <1>4 DEF Msgs, Results, Adds, Of
  <2>8. \A l \in Lists, j \in Jobs :
          zset'[l][j] = IF c.list = l /\ zset[l][j] <= c.score THEN 0 ELSE zset[l][j]
    BY <2>2, <2>6
  <2>. QED
    BY <1>t, <1>4, <2>3, <2>5, <2>7, <2>8 DEF StoreTypes, Effect
<1>. QED
  BY <1>0, <1>1, <1>2, <1>3, <1>4, <1>5

PipeTypes ==
  /\ pipe' \in [Procs -> Seq(Command)]
  /\ \A p \in Procs : pipe'[p] # <<>> => p \in piped

(* A call is buffered, or executed at once, or it has no effect.           *)
Buffers(p, c)  == p \in piped /\ Buffer(p, c) /\ UNCHANGED <<store, faults>>
Executed(p, c) == p \notin piped /\ Execute(c) /\ UNCHANGED pipe /\ pipe[p] = <<>>
Refused(p)     == p \notin piped /\ UNCHANGED <<store, pipe>> /\ pipe[p] = <<>>

LEMMA Writes ==
  ASSUME TInv, NEW p \in Procs, NEW c \in Command, NEW r \in Replies, Write(p, c, r)
  PROVE  /\ StoreTypes /\ PipeTypes
         /\ faults' \in 0 .. MaxFaults /\ faults <= faults'
         /\ Buffers(p, c) \/ Executed(p, c) \/ (Refused(p) /\ r # "ok")
<1>t. pipe \in [Procs -> Seq(Command)] /\ faults \in 0 .. MaxFaults
      /\ \A q \in Procs : pipe[q] # <<>> => q \in piped
  BY DEF TInv, TypeOK
<1>1. faults' \in 0 .. MaxFaults /\ faults <= faults'
  BY <1>t, StoreAssumption DEF Write, Fault
<1>2. CASE p \in piped
  <2>1. PICK s : s = Append(pipe[p], c)
    OBVIOUS
  <2>2. s \in Seq(Command)
    BY <1>t, <2>1
  <2>3. pipe' = [pipe EXCEPT ![p] = s] /\ UNCHANGED store /\ Buffers(p, c)
    BY <1>2, <2>1 DEF Write, Buffers, Buffer
  <2>4. PipeTypes
    BY <1>t, <1>2, <2>2, <2>3 DEF PipeTypes
  <2>5. StoreTypes
    BY <2>3 DEF StoreTypes, store, TInv, TypeOK
  <2>. QED
    BY <1>1, <2>3, <2>4, <2>5
<1>3. CASE p \notin piped
  <2>1. UNCHANGED pipe /\ PipeTypes /\ pipe[p] = <<>>
    BY <1>t, <1>3 DEF Write, PipeTypes
  <2>2. CASE r = "failed"
    <3>1. UNCHANGED store /\ StoreTypes
      BY <1>3, <2>2 DEF Write, StoreTypes, store, TInv, TypeOK
    <3>. QED
      BY <1>1, <1>3, <2>1, <2>2, <3>1 DEF Refused
  <2>3. CASE r # "failed"
    <3>1. Execute(c)
      BY <1>3, <2>3 DEF Write
    <3>2. StoreTypes
      BY <3>1, Executes
    <3>. QED
      BY <1>1, <1>3, <2>1, <3>1, <3>2 DEF Executed
  <2>. QED
    BY <2>2, <2>3
<1>. QED
  BY <1>2, <1>3

-----------------------------------------------------------------------------
(* A step that is not about job j                                          *)

(* The commands of j stand in t as they stood in s, or as some fewer do.   *)
SameFor(s, t, j) ==
  /\ ToSet(t) \cap Own(j) = ToSet(s) \cap Own(j)
  /\ \A A, B : Before(s, A \cap Own(j), B \cap Own(j)) => Before(t, A \cap Own(j), B \cap Own(j))
  /\ \A A, B : Followed(s, A \cap Own(j), B \cap Own(j)) => Followed(t, A \cap Own(j), B \cap Own(j))
  /\ Ascending(s, j) => Ascending(t, j)

SamePipes(j) == \A p \in Procs : SameFor(pipe[p], pipe'[p], j)

SameJob(j) ==
  /\ job'[j] = job[j] /\ delete'[j] = delete[j] /\ (j \in raced' <=> j \in raced)
  /\ piped' = piped /\ now <= now' /\ faults <= faults' /\ (Overran(j) => Overran(j)')

(* Entries may be purged, and a result may come late.                      *)
SameStore(j) ==
  /\ msg'[j] = msg[j]
  /\ j \in result => j \in result'
  /\ j \in result' => j \in result \/ Overran(j)
  /\ \A l \in Lists :
       \/ zset'[l][j] = zset[l][j]
       \/ zset'[l][j] = 0 /\ (zset[l][j] # 0 => Purgers # {} /\ zset[l][j] + MetaExpiry <= now)

(* Where a job is when its result or its listing matters.                  *)
LEMMA Placed ==
  ASSUME TInv, NEW j \in Jobs, ListedOnce(j)
  PROVE  /\ job[j].pc = "saved" \/ Decided(j) => job[j].at \in Procs
         /\ Seen(j) \/ Coming(j) \/ job[j].pc \in {"listed", "end"} => Decided(j)
         /\ job[j].kept => Decided(j)
<1>1. Coming(j) => Decided(j)
  BY DEF Coming, ListedOnce
<1>. QED
  BY <1>1 DEF TInv, ListedOnce, Decided, Final

LEMMA Frame ==
  ASSUME TInv, NEW j \in Jobs, JInv(j), SamePipes(j), SameJob(j), SameStore(j), now' \in Nat
  PROVE  JInv(j)'
<1>t. /\ now \in Nat /\ faults \in Nat /\ MetaExpiry \in Nat /\ job[j].since \in Nat
      /\ \A l \in Lists : zset[l][j] \in Nat
  BY StoreAssumption DEF TInv, TypeOK
<1>k. /\ Msgs(j) \subseteq Own(j) /\ Results(j) \subseteq Own(j) /\ Adds(j) \subseteq Own(j)
      /\ Finals(j) \subseteq Own(j)
  BY Kinds DEF Own
<1>1. \A p \in Procs :
        /\ Cmds(p)' \cap Own(j) = Cmds(p) \cap Own(j)
        /\ Ascending(pipe[p], j) => Ascending(pipe[p], j)'
        /\ \A A, B : Before(pipe[p], A \cap Own(j), B \cap Own(j))
                       => Before(pipe'[p], A \cap Own(j), B \cap Own(j))
        /\ \A A, B : Followed(pipe[p], A \cap Own(j), B \cap Own(j))
                       => Followed(pipe'[p], A \cap Own(j), B \cap Own(j))
  BY DEF SamePipes, SameFor, Cmds
<1>2. \A p \in Procs : /\ Cmds(p)' \cap Msgs(j) = Cmds(p) \cap Msgs(j)
                       /\ Cmds(p)' \cap Results(j) = Cmds(p) \cap Results(j)
                       /\ Cmds(p)' \cap Adds(j) = Cmds(p) \cap Adds(j)
                       /\ Cmds(p)' \cap Finals(j) = Cmds(p) \cap Finals(j)
                       /\ Cmds(p)' \cap (Adds(j) \cup Finals(j)) = Cmds(p) \cap (Adds(j) \cup Finals(j))
  BY <1>1, <1>k
<1>3. \A p \in Procs : /\ Before(pipe[p], Adds(j) \cup Results(j), Finals(j))
                            => Before(pipe'[p], Adds(j) \cup Results(j), Finals(j))
                       /\ Followed(pipe[p], Results(j), Msgs(j)) => Followed(pipe'[p], Results(j), Msgs(j))
  <2>1. /\ (Adds(j) \cup Results(j)) \cap Own(j) = Adds(j) \cup Results(j) /\ Finals(j) \cap Own(j) = Finals(j)
        /\ Results(j) \cap Own(j) = Results(j) /\ Msgs(j) \cap Own(j) = Msgs(j)
    BY <1>k
  <2>2. ASSUME NEW p \in Procs, NEW A, NEW B, A \cap Own(j) = A, B \cap Own(j) = B
        PROVE  /\ Before(pipe[p], A, B) => Before(pipe'[p], A, B)
               /\ Followed(pipe[p], A, B) => Followed(pipe'[p], A, B)
    BY <1>1, <2>2
  <2>. QED
    BY <2>1, <2>2
<1>4. Decided(j)' = Decided(j) /\ Seen(j)' = Seen(j) /\ Coming(j)' = Coming(j) /\ (Good(j)' => Good(j))
  BY <1>2, <1>t DEF Decided, Seen, Coming, Good, SameJob, SameStore
<1>5. ListedOnce(j)'
  <2>1. CASE ~Decided(j)
    BY <1>2, <1>4, <2>1 DEF JInv, ListedOnce, SameJob, SameStore
  <2>2. CASE Decided(j)
    <3>1. /\ job[j].at \in Procs /\ job[j].since > 0 /\ job'[j] = job[j]
          /\ msg'[j].status \in Final => msg'[j].status = job[j].verdict /\ msg'[j].since = job[j].since
          /\ \A l \in Lists : zset'[l][j] \in (IF Verdict(l) = job[j].verdict THEN {0, job[j].since} ELSE {0})
      BY <2>2 DEF JInv, ListedOnce, SameJob, SameStore
    <3>2. /\ \A p \in Procs \ {job[j].at} : Cmds(p)' \cap (Adds(j) \cup Finals(j)) = {}
          /\ \A c \in Cmds(job[j].at)' \cap Adds(j) : Verdict(c.list) = job[j].verdict /\ c.score = job[j].since
          /\ \A c \in Cmds(job[j].at)' \cap Finals(j) :
               c.msg.status = job[j].verdict /\ c.msg.since = job[j].since
      BY <1>2, <2>2, <3>1 DEF JInv, ListedOnce
    <3>. QED
      BY <1>4, <2>2, <3>1, <3>2 DEF ListedOnce, Cmds
  <2>. QED
    BY <2>1, <2>2
<1>6. InOrder(j)'
  <2>1. Seen(j) => \A p \in Procs : Cmds(p)' \cap Adds(j) = {}
    BY <1>2 DEF JInv, InOrder
  <2>2. msg'[j].status \in Final => Cmds(job[j].at)' \cap Results(j) = {}
    <3>1. ASSUME msg'[j].status \in Final PROVE job[j].at \in Procs
      BY <3>1, Placed DEF JInv, SameStore, Seen
    <3>. QED
      BY <1>2, <3>1 DEF JInv, InOrder, SameJob, SameStore
  <2>3. \A p \in Procs : Before(pipe'[p], Adds(j) \cup Results(j), Finals(j))
    BY <1>3 DEF JInv, InOrder
  <2>. QED
    BY <1>4, <2>1, <2>2, <2>3 DEF InOrder, Cmds
<1>7. Backing(j)'
  <2> SUFFICES ASSUME Good(j)'
               PROVE  /\ (job[j].pc = "saved" \/ job[j].kept) => HasResult(j)'
                      /\ (job[j].pc \in {"listed", "end"} \/ msg[j].status \in Final \/ Coming(j)) => HasEntry(j)'
    BY <1>4 DEF Backing, SameJob, SameStore
  <2>1. ASSUME job[j].pc = "saved" \/ job[j].kept PROVE HasResult(j)'
    <3>1. job[j].at \in Procs
      BY <2>1, Placed DEF JInv
    <3>2. HasResult(j)
      BY <1>4, <2>1 DEF JInv, Backing
    <3>. QED
      BY <1>2, <3>1, <3>2 DEF HasResult, SameJob, SameStore
  <2>2. ASSUME job[j].pc \in {"listed", "end"} \/ msg[j].status \in Final \/ Coming(j) PROVE HasEntry(j)'
    <3>1. job[j].at \in Procs /\ Decided(j)
      BY <2>2, Placed DEF JInv, Seen
    <3>2. HasEntry(j)
      BY <1>4, <2>2 DEF JInv, Backing
    <3>3. CASE Cmds(job[j].at) \cap Adds(j) # {}
      BY <1>2, <3>1, <3>3 DEF HasEntry, SameJob
    <3>4. CASE Purgers # {} /\ job[j].since + MetaExpiry <= now
      BY <1>t, <3>4 DEF HasEntry, SameJob
    <3>5. ASSUME NEW l \in Lists, Verdict(l) = job[j].verdict, zset[l][j] # 0 PROVE HasEntry(j)'
      <4>1. zset[l][j] = job[j].since
        BY <3>1, <3>5 DEF JInv, ListedOnce
      <4>2. CASE zset'[l][j] = zset[l][j]
        BY <3>5, <4>2 DEF HasEntry, SameJob
      <4>3. CASE zset'[l][j] # zset[l][j]
        <5>1. Purgers # {} /\ zset[l][j] + MetaExpiry <= now
          BY <3>5, <4>3 DEF SameStore
        <5>. QED
          BY <1>t, <4>1, <5>1 DEF HasEntry, SameJob
      <4>. QED
        BY <4>2, <4>3
    <3>. QED
      BY <3>2, <3>3, <3>4, <3>5 DEF HasEntry
  <2>. QED
    BY <2>1, <2>2
<1>8. Deleted(j)'
  BY DEF JInv, Deleted, SameJob, SameStore, Lists
<1>9. NoRace(j)'
  BY <1>2, <1>3, <1>4 DEF JInv, NoRace, SameJob, SameStore
<1>10. Forward(j)'
  <2>1. JobRank(j)' = JobRank(j) /\ msg'[j] = msg[j]
    BY DEF JobRank, SameJob, SameStore
  <2>. QED
    BY <1>1, <1>2, <2>1 DEF JInv, Forward, SameJob
<1>. QED
  BY <1>5, <1>6, <1>7, <1>8, <1>9, <1>10 DEF JInv

LEMMA PipesSame ==
  ASSUME TInv, NEW j \in Jobs
  PROVE  /\ UNCHANGED pipe => SamePipes(j)
         /\ \A p \in Procs, c \in Command \ Own(j) : Buffer(p, c) => SamePipes(j)
         /\ \A p \in Procs : /\ pipe[p] # <<>> /\ Head(pipe[p]) \notin Own(j)
                             /\ pipe' = [pipe EXCEPT ![p] = Tail(@)]
                             => SamePipes(j)
<1>t. pipe \in [Procs -> Seq(Command)]
  BY DEF TInv
<1>0. \A s : SameFor(s, s, j)
  BY DEF SameFor
<1>k. Msgs(j) \subseteq Own(j)
  BY DEF Own
<1>1. UNCHANGED pipe => SamePipes(j)
  BY <1>0 DEF SamePipes
<1>2. ASSUME NEW p \in Procs, NEW c \in Command, c \notin Own(j), Buffer(p, c) PROVE SamePipes(j)
  <2>1. PICK s, t : s = pipe[p] /\ t = Append(s, c)
    OBVIOUS
  <2>2. s \in Seq(Command) /\ pipe' = [pipe EXCEPT ![p] = t]
    BY <1>t, <1>2, <2>1 DEF Buffer
  <2>3. /\ ToSet(t) = ToSet(s) \cup {c}
        /\ \A A, B : Before(s, A, B) /\ (c \in A => c \notin B /\ ToSet(s) \cap B = {}) => Before(t, A, B)
        /\ \A A, B : Followed(s, A, B) /\ c \notin A => Followed(t, A, B)
        /\ Ascending(s, j) /\ c \notin Msgs(j) => Ascending(t, j)
    BY <2>1, <2>2, Appended
  <2>4. SameFor(s, t, j)
    <3>1. ToSet(t) \cap Own(j) = ToSet(s) \cap Own(j)
      BY <1>2, <2>3
    <3>2. ASSUME NEW A, NEW B
          PROVE  /\ Before(s, A \cap Own(j), B \cap Own(j)) => Before(t, A \cap Own(j), B \cap Own(j))
                 /\ Followed(s, A \cap Own(j), B \cap Own(j)) => Followed(t, A \cap Own(j), B \cap Own(j))
      <4>1. c \notin A \cap Own(j)
        BY <1>2
      <4>. QED
        BY <2>3, <4>1
    <3>3. Ascending(s, j) => Ascending(t, j)
      BY <1>2, <1>k, <2>3
    <3>. QED
      BY <3>1, <3>2, <3>3 DEF SameFor
  <2>. QED
    BY <1>t, <1>0, <2>1, <2>2, <2>4 DEF SamePipes
<1>3. ASSUME NEW p \in Procs, pipe[p] # <<>>, Head(pipe[p]) \notin Own(j),
             pipe' = [pipe EXCEPT ![p] = Tail(@)]
      PROVE  SamePipes(j)
  <2>1. PICK s, t, h : s = pipe[p] /\ t = Tail(s) /\ h = Head(s)
    OBVIOUS
  <2>2. s \in Seq(Command) /\ s # <<>> /\ pipe' = [pipe EXCEPT ![p] = t] /\ h \notin Own(j)
    BY <1>t, <1>3, <2>1
  <2>3. /\ ToSet(s) = ToSet(t) \cup {h}
        /\ \A A, B : Before(s, A, B) => Before(t, A, B)
        /\ \A A, B : Followed(s, A, B) => Followed(t, A, B)
        /\ Ascending(s, j) => Ascending(t, j)
    BY <2>1, <2>2, TakenOff
  <2>4. SameFor(s, t, j)
    BY <2>2, <2>3 DEF SameFor
  <2>. QED
    BY <1>t, <1>0, <2>1, <2>2, <2>4 DEF SamePipes
<1>. QED
  BY <1>1, <1>2, <1>3

LEMMA StoreSame ==
  ASSUME TInv, NEW j \in Jobs
  PROVE  /\ UNCHANGED store => SameStore(j)
         /\ \A c \in Command \ Own(j) : Effect(c, j) /\ Due(c) => SameStore(j)
<1>1. UNCHANGED store => SameStore(j)
  BY DEF store, SameStore
<1>2. ASSUME NEW c \in Command, c \notin Own(j), Effect(c, j), Due(c) PROVE SameStore(j)
  <2>1. c \notin Msgs(j) /\ c \notin Results(j) /\ c \notin Adds(j)
    BY <1>2 DEF Own
  <2>2. /\ msg'[j] = msg[j]
        /\ j \in result => j \in result'
        /\ j \in result' => j \in result \/ Overran(j)
    BY <1>2, <2>1 DEF Effect, Due
  <2>3. ASSUME NEW l \in Lists
        PROVE  \/ zset'[l][j] = zset[l][j]
               \/ zset'[l][j] = 0 /\ (zset[l][j] # 0 => Purgers # {} /\ zset[l][j] + MetaExpiry <= now)
    <3>1. CASE c.op = "purge" /\ c.list = l /\ zset[l][j] <= c.score
      <4>1. zset'[l][j] = 0 /\ Purgers # {} /\ c.score + MetaExpiry <= now
        BY <1>2, <2>1, <3>1 DEF Effect, Due
      <4>2. c.score \in Nat /\ zset[l][j] \in Nat /\ now \in Nat /\ MetaExpiry \in Nat
        BY <3>1, Kinds, StoreAssumption DEF TInv, TypeOK
      <4>. QED
        BY <3>1, <4>1, <4>2
    <3>2. CASE ~(c.op = "purge" /\ c.list = l /\ zset[l][j] <= c.score)
      BY <1>2, <2>1, <3>2 DEF Effect
    <3>. QED
      BY <3>1, <3>2
  <2>. QED
    BY <2>2, <2>3 DEF SameStore
<1>. QED
  BY <1>1, <1>2

(* A call that is not about job j, of a process at work on something else. *)
LEMMA Elsewhere ==
  ASSUME TInv, NEW j \in Jobs, JInv(j), SameJob(j), now' \in Nat,
         NEW p \in Procs, NEW c \in Command, c \notin Own(j), Due(c),
         NEW r \in Replies, Write(p, c, r)
  PROVE  JInv(j)'
<1>1. Buffers(p, c) \/ Executed(p, c) \/ Refused(p)
  BY Writes
<1>2. SamePipes(j)
  BY <1>1, PipesSame DEF Buffers, Executed, Refused
<1>3. SameStore(j)
  <2>1. CASE Executed(p, c)
    BY <2>1, Executes, StoreSame DEF Executed
  <2>2. CASE UNCHANGED store
    BY <2>2, StoreSame
  <2>. QED
    BY <1>1, <2>1, <2>2 DEF Buffers, Refused
<1>. QED
  BY <1>2, <1>3, Frame

-----------------------------------------------------------------------------
(* Ranks                                                                   *)

JobState ==
  [pc : {"new", "queued", "running", "saved", "listed", "end", "stuck"},
   at : Procs \cup {None}, n : 0 .. Retries, since : 0 .. Horizon, verdict : Status,
   chained : BOOLEAN, kept : BOOLEAN]

LEMMA RankType ==
  /\ \A m \in Msg : Rank(m) \in Nat
  /\ \A m \in Msg : /\ m.status = "queued" => Rank(m) = 1
                    /\ m.status = "retrying" => Rank(m) = 2 * m.n + 1
                    /\ m.status = "processing" => Rank(m) = 2 * m.n + 2
                    /\ m.status \in Final => Rank(m) = 2 * Retries + 3
                    /\ Rank(m) <= 2 * Retries + 3
  /\ \A e \in JobState : RankOf(e) \in Nat /\ RankOf(e) <= 2 * Retries + 4
<1> USE StoreAssumption
<1>1. ASSUME NEW m \in Msg
      PROVE  /\ Rank(m) \in Nat /\ Rank(m) <= 2 * Retries + 3
             /\ m.status = "queued" => Rank(m) = 1
             /\ m.status = "retrying" => Rank(m) = 2 * m.n + 1
             /\ m.status = "processing" => Rank(m) = 2 * m.n + 2
             /\ m.status \in Final => Rank(m) = 2 * Retries + 3
  <2>1. m.status \in Status \cup {"none"} /\ m.n \in Nat /\ m.n <= Retries
    BY DEF Msg
  <2>. QED
    BY <2>1 DEF Rank, Status, Final
<1>2. ASSUME NEW e \in JobState PROVE RankOf(e) \in Nat /\ RankOf(e) <= 2 * Retries + 4
  <2>1. e.pc \in {"new", "queued", "running", "saved", "listed", "end", "stuck"}
        /\ e.n \in Nat /\ e.n <= Retries
    BY DEF JobState
  <2>. QED
    BY <2>1 DEF RankOf
<1>. QED
  BY <1>1, <1>2

-----------------------------------------------------------------------------
(* The writes of a job                                                     *)

(* What Buffer does to the pipes, as far as the commands of j go.          *)
LEMMA PipeGrows ==
  ASSUME TInv, NEW j \in Jobs, NEW p \in Procs, NEW c \in Command, Buffer(p, c)
  PROVE  /\ Cmds(p)' = Cmds(p) \cup {c}
         /\ \A q \in Procs \ {p} : pipe'[q] = pipe[q] /\ Cmds(q)' = Cmds(q)
         /\ \A A, B : Before(pipe[p], A, B) /\ (c \in A => c \notin B /\ Cmds(p) \cap B = {})
                        => Before(pipe'[p], A, B)
         /\ \A A, B : c \in B /\ c \notin A => Followed(pipe'[p], A, B)
         /\ \A A, B : Followed(pipe[p], A, B) /\ c \notin A => Followed(pipe'[p], A, B)
         /\ /\ Ascending(pipe[p], j)
            /\ c \in Msgs(j) => \A d \in Cmds(p) \cap Msgs(j) : Rank(d.msg) < Rank(c.msg)
            => Ascending(pipe'[p], j)
<1>t. pipe \in [Procs -> Seq(Command)]
  BY DEF TInv
<1>1. PICK s, t : s = pipe[p] /\ t = Append(s, c)
  OBVIOUS
<1>2. s \in Seq(Command) /\ pipe' = [pipe EXCEPT ![p] = t]
  BY <1>t, <1>1 DEF Buffer
<1>3. pipe'[p] = t /\ \A q \in Procs \ {p} : pipe'[q] = pipe[q]
  BY <1>t, <1>2
<1>4. /\ ToSet(t) = ToSet(s) \cup {c}
      /\ \A A, B : Before(s, A, B) /\ (c \in A => c \notin B /\ ToSet(s) \cap B = {}) => Before(t, A, B)
      /\ \A A, B : c \in B /\ c \notin A => Followed(t, A, B)
      /\ \A A, B : Followed(s, A, B) /\ c \notin A => Followed(t, A, B)
      /\ /\ Ascending(s, j)
         /\ c \in Msgs(j) => \A d \in ToSet(s) \cap Msgs(j) : Rank(d.msg) < Rank(c.msg)
         => Ascending(t, j)
  BY <1>1, <1>2, Appended
<1>. QED
  BY <1>1, <1>3, <1>4 DEF Cmds

(* Whoever writes a status while nobody else has one in its pipe.          *)
Races(p, j) == raced' = IF \E q \in Procs \ {p} : Buffered(q, j) THEN raced \cup {j} ELSE raced

LEMMA AloneIf ==
  ASSUME TInv, NEW j \in Jobs, NEW p \in Procs, Races(p, j), j \notin raced'
  PROVE  j \notin raced /\ \A q \in Procs \ {p} : Cmds(q) \cap Msgs(j) = {}
<1>1. j \notin raced /\ \A q \in Procs \ {p} : ~Buffered(q, j)
  BY DEF Races
<1>2. \A q \in Procs : Cmds(q) \cap Msgs(j) # {} => Buffered(q, j)
  BY Kinds DEF Buffered, Cmds, Of, Msgs
<1>. QED
  BY <1>1, <1>2

LEMMA EmptyPipe ==
  ASSUME NEW p \in Procs, pipe[p] = <<>>
  PROVE  /\ Cmds(p) = {} /\ \A A, B : Followed(pipe[p], A, B) /\ Before(pipe[p], A, B)
         /\ \A j : Ascending(pipe[p], j)
BY NoCommands DEF Cmds

(***************************************************************************)
(* A status that is not final is written while the job's list is not yet   *)
(* decided on (statusStarted, statusProcessing, statusRetrying).           *)
(***************************************************************************)
LEMMA UnfinishedWritten ==
  ASSUME TInv, TInv', NEW j \in Jobs, JInv(j),
         NEW p \in Procs, NEW m \in Msg, m.status \notin Final,
         NEW r \in Replies, Write(p, SetMsg(j, m), r), Races(p, j),
         delete'[j] = delete[j], ~Decided(j), ~Decided(j)', job'[j].pc # "saved",
         job[j].at \in {None, p}, JobRank(j) < Rank(m), Rank(m) <= JobRank(j)'
  PROVE  JInv(j)'
<1> DEFINE c == SetMsg(j, m)
<1>c. c \in Command /\ c \in Msgs(j) /\ c.msg = m /\ c \notin Finals(j) /\ c \notin Results(j) /\ c \notin Adds(j)
  BY Written, Kinds DEF Own
<1>w. Buffers(p, c) \/ Executed(p, c) \/ Refused(p)
  BY <1>c, Writes
<1>n. /\ ~Seen(j) /\ \A l \in Lists : zset[l][j] = 0
      /\ \A q \in Procs : Cmds(q) \cap (Adds(j) \cup Finals(j)) = {}
  BY DEF JInv, ListedOnce
<1> HIDE DEF c
<1>p. \A q \in Procs : Cmds(q)' = Cmds(q) \/ (q = p /\ Cmds(q)' = Cmds(q) \cup {c})
  <2>1. CASE Buffers(p, c)
    BY <1>c, <2>1, PipeGrows DEF Buffers
  <2>2. CASE UNCHANGED pipe
    BY <2>2 DEF Cmds
  <2>. QED
    BY <1>w, <2>1, <2>2 DEF Executed, Refused
<1>s. /\ msg'[j] = msg[j] \/ msg'[j] = m
      /\ j \in result' <=> j \in result
      /\ \A l \in Lists : zset'[l][j] = 0
  <2>1. CASE Executed(p, c)
    <3>1. Effect(c, j)
      BY <1>c, <2>1, Executes DEF Executed
    <3>2. c.op \notin {"purge", "late"}
      BY <1>c, Kinds
    <3>. QED
      BY <1>c, <1>n, <3>1, <3>2 DEF Effect
  <2>2. CASE UNCHANGED store
    BY <1>n, <2>2 DEF store
  <2>. QED
    BY <1>w, <2>1, <2>2 DEF Buffers, Refused
<1>0. ~Seen(j)' /\ \A q \in Procs : Cmds(q)' \cap (Adds(j) \cup Finals(j)) = {}
  BY <1>c, <1>n, <1>p, <1>s DEF Seen
<1>1. ListedOnce(j)'
  BY <1>0, <1>s DEF ListedOnce
<1>2. InOrder(j)'
  <2>1. ASSUME NEW q \in Procs PROVE Before(pipe'[q], Adds(j) \cup Results(j), Finals(j))
    <3>1. \A i \in DOMAIN pipe'[q] : pipe'[q][i] \notin Finals(j)
      BY <1>0, ToSetHas DEF Cmds
    <3>. QED
      BY <3>1 DEF Before
  <2>. QED
    BY <1>0, <2>1 DEF InOrder, Seen
<1>3. Backing(j)'
  <2>1. ~(job'[j].pc = "saved" \/ job'[j].kept)
    BY DEF TInv, Decided, Final
  <2>2. ~(job'[j].pc \in {"listed", "end"} \/ msg'[j].status \in Final \/ Coming(j)')
    BY <1>0 DEF TInv, Seen, Coming
  <2>. QED
    BY <2>1, <2>2 DEF Backing
<1>4. Deleted(j)'
  BY <1>s DEF Deleted, Lists
<1>5. ASSUME j \notin raced'
      PROVE  j \notin raced /\ \A q \in Procs \ {p} : Cmds(q) \cap Msgs(j) = {} /\ pipe'[q] = pipe[q]
  <2>1. \A q \in Procs \ {p} : pipe'[q] = pipe[q]
    BY <1>c, <1>w, PipeGrows DEF Buffers, Executed, Refused
  <2>. QED
    BY <1>5, <2>1, AloneIf
<1>6. NoRace(j)'
  <2> SUFFICES ASSUME j \notin raced'
               PROVE  /\ \A q \in Procs : Followed(pipe'[q], Results(j), Msgs(j))
                      /\ \A q1, q2 \in Procs : q1 # q2 => Cmds(q1)' \cap Msgs(j) = {} \/ Cmds(q2)' \cap Msgs(j) = {}
    BY <1>0 DEF NoRace, Seen
  <2>1. ASSUME NEW q \in Procs PROVE Followed(pipe'[q], Results(j), Msgs(j))
    <3>1. CASE q # p
      <4>1. q # job[j].at
        BY <3>1, StoreAssumption
      <4>. QED
        BY <1>5, <3>1, <4>1 DEF JInv, NoRace
    <3>2. CASE q = p /\ Buffers(p, c)
      BY <1>c, <3>2, PipeGrows DEF Buffers
    <3>3. CASE q = p /\ UNCHANGED pipe /\ pipe[p] = <<>>
      BY <3>3, NoCommands
    <3>. QED
      BY <1>w, <3>1, <3>2, <3>3 DEF Executed, Refused
  <2>2. \A q \in Procs \ {p} : Cmds(q)' \cap Msgs(j) = {}
    BY <1>5 DEF Cmds
  <2>. QED
    BY <2>1, <2>2
<1>7. Forward(j)'
  <2>t. JobRank(j) \in Nat /\ JobRank(j)' \in Nat /\ Rank(m) \in Nat /\ Rank(msg[j]) \in Nat
        /\ \A q \in Procs : \A d \in Cmds(q) \cap Msgs(j) : Rank(d.msg) \in Nat
    <3>1. job[j] \in JobState /\ job'[j] \in JobState /\ msg[j] \in Msg
      BY DEF TInv, TypeOK, JobState
    <3>. QED
      BY <3>1, RankType, Kinds DEF JobRank
  <2>0. /\ Rank(msg[j]) <= JobRank(j)
        /\ \A q \in Procs : \A d \in Cmds(q) \cap Msgs(j) : Rank(d.msg) <= JobRank(j)
    BY DEF JInv, Forward
  <2>1. Rank(msg'[j]) <= JobRank(j)'
    BY <1>s, <2>t, <2>0
  <2>2. \A q \in Procs : \A d \in Cmds(q)' \cap Msgs(j) : Rank(d.msg) <= JobRank(j)'
    BY <1>c, <1>p, <2>t, <2>0
  <2>3. ASSUME j \notin raced', NEW q \in Procs
        PROVE  /\ Ascending(pipe'[q], j)
               /\ \A d \in Cmds(q)' \cap Msgs(j) : Rank(msg'[j]) < Rank(d.msg)
    <3>0. /\ \A x \in Procs : Ascending(pipe[x], j)
          /\ \A x \in Procs : \A d \in Cmds(x) \cap Msgs(j) : Rank(msg[j]) < Rank(d.msg)
      BY <1>5, <2>3 DEF JInv, Forward
    <3>1. CASE q # p
      BY <1>5, <2>3, <3>0, <3>1 DEF Cmds
    <3>2. CASE q = p /\ Buffers(p, c)
      <4>1. msg' = msg
        BY <3>2 DEF Buffers, store
      <4>2. \A d \in Cmds(p) \cap Msgs(j) : Rank(d.msg) < Rank(c.msg)
        BY <1>c, <2>t, <2>0
      <4>3. Ascending(pipe'[p], j) /\ Cmds(p)' = Cmds(p) \cup {c}
        BY <1>c, <3>0, <3>2, <4>2, PipeGrows DEF Buffers
      <4>4. Rank(msg[j]) < Rank(c.msg)
        BY <1>c, <2>t, <2>0
      <4>. QED
        BY <3>0, <3>2, <4>1, <4>3, <4>4
    <3>3. CASE q = p /\ UNCHANGED pipe /\ pipe[p] = <<>>
      BY <3>3, EmptyPipe DEF Cmds
    <3>. QED
      BY <1>w, <3>1, <3>2, <3>3 DEF Executed, Refused
  <2>. QED
    BY <2>1, <2>2, <2>3 DEF Forward
<1>. QED
  BY <1>1, <1>2, <1>3, <1>4, <1>6, <1>7 DEF JInv

(***************************************************************************)
(* The final status is written once the job is in its list, behind what    *)
(* the same process wrote before (statusDone, statusFailed).               *)
(***************************************************************************)
LEMMA FinalWritten ==
  ASSUME TInv, TInv', NEW j \in Jobs, JInv(j), job[j].pc = "listed",
         NEW m \in Msg, m.status = job[j].verdict, m.since = job[j].since,
         NEW r \in Replies, Write(job[j].at, SetMsg(j, m), r), Races(job[j].at, j),
         UNCHANGED <<now, piped>>, delete'[j] = delete[j],
         job'[j].pc \in {"end", "stuck"}, job'[j].at = job[j].at, job'[j].since = job[j].since,
         job'[j].verdict = job[j].verdict, job'[j].kept = job[j].kept, UNCHANGED late
  PROVE  JInv(j)'
<1> DEFINE c == SetMsg(j, m)
<1>0. PICK a : a = job[j].at
  OBVIOUS
<1>d. Decided(j) /\ Decided(j)' /\ a \in Procs /\ m.status \in Final
  BY <1>0 DEF TInv, Decided
<1>c. c \in Command /\ c \in Msgs(j) /\ c.msg = m /\ c \in Finals(j) /\ c \notin Results(j) /\ c \notin Adds(j)
  BY <1>d, Written, Kinds DEF Own
<1>w. Buffers(a, c) \/ Executed(a, c) \/ Refused(a)
  BY <1>0, <1>c, <1>d, Writes
<1>f. faults <= faults' /\ faults \in Nat /\ faults' \in Nat
  <2>1. faults <= faults' /\ faults' \in 0 .. MaxFaults
    BY <1>0, <1>c, <1>d, Writes
  <2>. QED
    BY <2>1 DEF TInv, TypeOK
<1> HIDE DEF c
<1>n. /\ job[j].since > 0
      /\ msg[j].status \in Final => msg[j].status = job[j].verdict /\ msg[j].since = job[j].since
      /\ \A l \in Lists : zset[l][j] \in (IF Verdict(l) = job[j].verdict THEN {0, job[j].since} ELSE {0})
      /\ \A q \in Procs \ {a} : Cmds(q) \cap (Adds(j) \cup Finals(j)) = {}
      /\ \A d \in Cmds(a) \cap Adds(j) : Verdict(d.list) = job[j].verdict /\ d.score = job[j].since
      /\ \A d \in Cmds(a) \cap Finals(j) : d.msg.status = job[j].verdict /\ d.msg.since = job[j].since
  BY <1>0, <1>d DEF JInv, ListedOnce
<1>p. /\ \A q \in Procs \ {a} : pipe'[q] = pipe[q] /\ Cmds(q)' = Cmds(q)
      /\ Cmds(a)' = Cmds(a) \/ Cmds(a)' = Cmds(a) \cup {c}
  <2>1. CASE Buffers(a, c)
    BY <1>c, <1>d, <2>1, PipeGrows DEF Buffers
  <2>2. CASE UNCHANGED pipe
    BY <2>2 DEF Cmds
  <2>. QED
    BY <1>w, <2>1, <2>2 DEF Executed, Refused
<1>x. ASSUME Executed(a, c) PROVE Effect(c, j) /\ c.op \notin {"purge", "late"} /\ Cmds(a) = {} /\ Cmds(a)' = {}
  <2>1. Effect(c, j) /\ c.op \notin {"purge", "late"}
    BY <1>c, <1>x, Executes, Kinds DEF Executed
  <2>. QED
    BY <1>d, <1>x, <2>1, EmptyPipe DEF Executed, Cmds
<1>s. /\ msg'[j] = msg[j] \/ (msg'[j] = m /\ Cmds(a) = {} /\ Cmds(a)' = {} /\ Executed(a, c))
      /\ j \in result' <=> j \in result
      /\ \A l \in Lists : zset'[l][j] = zset[l][j]
  <2>1. CASE Executed(a, c)
    BY <1>c, <1>x, <2>1 DEF Effect
  <2>2. CASE UNCHANGED store
    BY <2>2 DEF store
  <2>. QED
    BY <1>w, <2>1, <2>2 DEF Buffers, Refused
<1>1. ListedOnce(j)'
  <2>1. /\ msg'[j].status \in Final => msg'[j].status = job[j].verdict /\ msg'[j].since = job[j].since
        /\ \A l \in Lists : zset'[l][j] \in (IF Verdict(l) = job[j].verdict THEN {0, job[j].since} ELSE {0})
    BY <1>n, <1>s
  <2>2. /\ \A q \in Procs \ {a} : Cmds(q)' \cap (Adds(j) \cup Finals(j)) = {}
        /\ \A d \in Cmds(a)' \cap Adds(j) : Verdict(d.list) = job[j].verdict /\ d.score = job[j].since
        /\ \A d \in Cmds(a)' \cap Finals(j) : d.msg.status = job[j].verdict /\ d.msg.since = job[j].since
    BY <1>c, <1>n, <1>p
  <2>3. job'[j].at = a /\ Cmds(job[j].at)' = Cmds(a)'
    BY <1>0 DEF Cmds
  <2>. QED
    BY <1>0, <1>d, <1>n, <2>1, <2>2, <2>3 DEF ListedOnce
<1>2. InOrder(j)'
  <2>0. /\ \A q \in Procs : Before(pipe[q], Adds(j) \cup Results(j), Finals(j))
        /\ Seen(j) => \A q \in Procs : Cmds(q) \cap Adds(j) = {}
        /\ msg[j].status \in Final => Cmds(a) \cap Results(j) = {}
    BY <1>0 DEF JInv, InOrder
  <2>1. ASSUME NEW q \in Procs PROVE Before(pipe'[q], Adds(j) \cup Results(j), Finals(j))
    <3>1. CASE Buffers(a, c) /\ q = a
      <4>1. c \notin Adds(j) \cup Results(j)
        BY <1>c
      <4>. QED
        BY <1>c, <1>d, <2>0, <3>1, <4>1, PipeGrows DEF Buffers
    <3>2. CASE pipe'[q] = pipe[q]
      BY <2>0, <3>2
    <3>. QED
      BY <1>p, <1>w, <3>1, <3>2 DEF Executed, Refused
  <2>2. ASSUME Seen(j)', NEW q \in Procs PROVE Cmds(q)' \cap Adds(j) = {}
    <3>1. CASE Seen(j)
      BY <1>c, <1>p, <2>0, <3>1
    <3>2. CASE ~Seen(j)
      <4>1. Cmds(a)' = {}
        BY <1>s, <2>2, <3>2 DEF Seen
      <4>. QED
        BY <1>n, <1>p, <4>1
    <3>. QED
      BY <3>1, <3>2
  <2>3. msg'[j].status \in Final => Cmds(a)' \cap Results(j) = {}
    BY <1>c, <1>p, <1>s, <2>0
  <2>4. Cmds(job[j].at)' = Cmds(a)'
    BY <1>0 DEF Cmds
  <2>. QED
    BY <2>1, <2>2, <2>3, <2>4 DEF InOrder
<1>3. Backing(j)'
  <2> SUFFICES ASSUME Good(j)'
               PROVE  (job'[j].kept => HasResult(j)') /\ HasEntry(j)'
    BY DEF Backing
  <2>1. Good(j)
    BY <1>0, <1>f DEF Good
  <2>2. (job[j].kept => HasResult(j)) /\ HasEntry(j)
    BY <2>1 DEF JInv, Backing
  <2>3. Cmds(a) \subseteq Cmds(a)' /\ Cmds(job[j].at) = Cmds(a) /\ Cmds(job[j].at)' = Cmds(a)'
    BY <1>0, <1>p DEF Cmds
  <2>4. job'[j].kept => HasResult(j)'
    BY <1>s, <2>2, <2>3 DEF HasResult
  <2>5. HasEntry(j)'
    BY <1>s, <2>2, <2>3 DEF HasEntry
  <2>. QED
    BY <2>4, <2>5
<1>4. Deleted(j)'
  BY <1>s DEF JInv, Deleted, Lists
<1>5. ASSUME j \notin raced' PROVE j \notin raced /\ \A q \in Procs \ {a} : Cmds(q) \cap (Msgs(j) \cup Results(j)) = {}
  <2>1. j \notin raced /\ \A q \in Procs \ {a} : Cmds(q) \cap Msgs(j) = {}
    BY <1>0, <1>5, <1>d, AloneIf
  <2>2. ASSUME NEW q \in Procs \ {a}, NEW d \in Cmds(q) \cap Results(j) PROVE FALSE
    <3>1. Followed(pipe[q], Results(j), Msgs(j))
      BY <1>0, <2>1 DEF JInv, NoRace
    <3>2. PICK i \in DOMAIN pipe[q] : pipe[q][i] = d
      BY <2>2, ToSetHas DEF Cmds
    <3>3. PICK k \in DOMAIN pipe[q] : pipe[q][k] \in Msgs(j)
      BY <2>2, <3>1, <3>2 DEF Followed
    <3>4. pipe[q][k] \in Cmds(q)
      BY ToSetHas DEF Cmds
    <3>. QED
      BY <2>1, <3>3, <3>4
  <2>. QED
    BY <2>1, <2>2
<1>6. NoRace(j)'
  <2> SUFFICES ASSUME j \notin raced' PROVE NoRace(j)'
    BY DEF NoRace
  <2>0. /\ j \notin raced /\ \A q \in Procs \ {a} : Cmds(q)' \cap Msgs(j) = {} /\ Cmds(q)' \cap Results(j) = {}
        /\ Finals(j) \subseteq Msgs(j)
    BY <1>5, <1>p, Kinds
  <2>1. \A q \in Procs \ {a} : Followed(pipe'[q], Results(j), Msgs(j))
    BY <1>0, <1>p, <2>0 DEF JInv, NoRace
  <2>2. Seen(j)' => \A q \in Procs : Cmds(q)' \cap Results(j) = {}
    <3>1. CASE Seen(j)
      <4>1. \A q \in Procs : Cmds(q) \cap Results(j) = {}
        BY <2>0, <3>1 DEF JInv, NoRace
      <4>. QED
        BY <1>c, <1>p, <4>1
    <3>2. ASSUME ~Seen(j), Seen(j)' PROVE Cmds(a)' = {}
      BY <1>s, <3>2 DEF Seen
    <3>. QED
      BY <2>0, <3>1, <3>2
  <2>3. delete'[j] = "ok" /\ ~Overran(j)' => j \notin result'
    BY <1>s, <2>0 DEF JInv, NoRace, Overran
  <2>4. \A p, q \in Procs : p # q => Cmds(p)' \cap Msgs(j) = {} \/ Cmds(q)' \cap Msgs(j) = {}
    BY <2>0
  <2>5. \A p, q \in Procs : p # q => Cmds(p)' \cap Finals(j) = {} \/ Cmds(q)' \cap Results(j) = {}
    BY <2>0
  <2>. QED
    BY <1>0, <2>1, <2>2, <2>3, <2>4, <2>5 DEF NoRace
<1>7. Forward(j)'
  <2>t. /\ JobRank(j) \in Nat /\ Rank(m) \in Nat /\ Rank(msg[j]) \in Nat
        /\ \A q \in Procs : \A d \in Cmds(q) \cap Msgs(j) : Rank(d.msg) \in Nat
        /\ Rank(m) = 2 * Retries + 3 /\ JobRank(j) < Rank(m)
        /\ JobRank(j)' \in {2 * Retries + 3, 2 * Retries + 4} /\ Retries \in Nat
    <3>1. job[j] \in JobState /\ job'[j] \in JobState /\ msg[j] \in Msg
      BY DEF TInv, TypeOK, JobState
    <3>2. job[j].n \in 0 .. Retries
      BY <3>1 DEF JobState
    <3>3. JobRank(j) = 2 * job[j].n + 2
      BY DEF JobRank, RankOf
    <3>4. JobRank(j)' \in {2 * Retries + 3, 2 * Retries + 4}
      BY DEF JobRank, RankOf
    <3>5. Rank(m) = 2 * Retries + 3
      BY <1>d, RankType
    <3>. QED
      BY <3>1, <3>2, <3>3, <3>4, <3>5, RankType, Kinds, StoreAssumption DEF JobRank
  <2>0. /\ Rank(msg[j]) <= JobRank(j)
        /\ \A q \in Procs : \A d \in Cmds(q) \cap Msgs(j) : Rank(d.msg) <= JobRank(j)
    BY DEF JInv, Forward
  <2>1. Rank(msg'[j]) <= JobRank(j)'
    BY <1>s, <2>t, <2>0
  <2>2. \A q \in Procs : \A d \in Cmds(q)' \cap Msgs(j) : Rank(d.msg) <= JobRank(j)'
    BY <1>c, <1>p, <2>t, <2>0
  <2>3. ASSUME j \notin raced', NEW q \in Procs
        PROVE  /\ Ascending(pipe'[q], j)
               /\ \A d \in Cmds(q)' \cap Msgs(j) : Rank(msg'[j]) < Rank(d.msg)
    <3>0. /\ \A x \in Procs : Ascending(pipe[x], j)
          /\ \A x \in Procs : \A d \in Cmds(x) \cap Msgs(j) : Rank(msg[j]) < Rank(d.msg)
      BY <1>5, <2>3 DEF JInv, Forward
    <3>1. CASE q # a
      BY <1>5, <1>p, <2>3, <3>0, <3>1
    <3>2. CASE q = a /\ Buffers(a, c)
      <4>1. msg' = msg
        BY <3>2 DEF Buffers, store
      <4>2. \A d \in Cmds(a) \cap Msgs(j) : Rank(d.msg) < Rank(c.msg)
        BY <1>c, <1>d, <2>t, <2>0
      <4>3. Ascending(pipe'[a], j) /\ Cmds(a)' = Cmds(a) \cup {c}
        BY <1>c, <1>d, <3>0, <3>2, <4>2, PipeGrows DEF Buffers
      <4>4. Rank(msg[j]) < Rank(c.msg)
        BY <1>c, <2>t, <2>0
      <4>. QED
        BY <3>0, <3>2, <4>1, <4>3, <4>4
    <3>3. CASE q = a /\ UNCHANGED pipe /\ pipe[a] = <<>>
      BY <3>3, EmptyPipe DEF Cmds
    <3>. QED
      BY <1>w, <3>1, <3>2, <3>3 DEF Executed, Refused
  <2>. QED
    BY <2>1, <2>2, <2>3 DEF Forward
<1>. QED
  BY <1>1, <1>2, <1>3, <1>4, <1>6, <1>7 DEF JInv

LEMMA ForwardStays ==
  ASSUME TInv, TInv', NEW j \in Jobs, Forward(j), msg'[j] = msg[j], JobRank(j) <= JobRank(j)',
         j \in raced => j \in raced',
         \A p \in Procs : /\ Cmds(p)' \cap Msgs(j) \subseteq Cmds(p)
                          /\ Ascending(pipe[p], j) => Ascending(pipe'[p], j)
  PROVE  Forward(j)'
<1>1. job[j] \in JobState /\ job'[j] \in JobState /\ msg[j] \in Msg
  BY DEF TInv, TypeOK, JobState
<1>2. /\ JobRank(j) \in Nat /\ JobRank(j)' \in Nat /\ Rank(msg[j]) \in Nat
      /\ \A p \in Procs : \A d \in Cmds(p) \cap Msgs(j) : Rank(d.msg) \in Nat
  BY <1>1, RankType, Kinds DEF JobRank
<1>3. \A p \in Procs : Cmds(p)' \cap Msgs(j) \subseteq Cmds(p) \cap Msgs(j)
  OBVIOUS
<1>4. Rank(msg'[j]) <= JobRank(j)'
  BY <1>2 DEF Forward
<1>5. \A p \in Procs : \A d \in Cmds(p)' \cap Msgs(j) : Rank(d.msg) <= JobRank(j)'
  BY <1>2, <1>3 DEF Forward
<1>6. j \notin raced' => \A p \in Procs : /\ Ascending(pipe'[p], j)
                                          /\ \A d \in Cmds(p)' \cap Msgs(j) : Rank(msg'[j]) < Rank(d.msg)
  BY <1>3 DEF Forward
<1>. QED
  BY <1>4, <1>5, <1>6 DEF Forward

(***************************************************************************)
(* The handler saves a result, before anything is decided (Save).          *)
(***************************************************************************)
LEMMA ResultWritten ==
  ASSUME TInv, TInv', NEW j \in Jobs, JInv(j), job[j].pc = "running",
         NEW r \in Replies, Write(job[j].at, SetResult(j), r),
         UNCHANGED <<piped, raced>>, delete'[j] = delete[j],
         job'[j].pc = (IF r = "ok" THEN "saved" ELSE "running"),
         job'[j].at = job[j].at, job'[j].n = job[j].n, job'[j].verdict = job[j].verdict
  PROVE  JInv(j)'
<1> DEFINE c == SetResult(j)
<1>0. PICK a : a = job[j].at
  OBVIOUS
<1>d. ~Decided(j) /\ ~Decided(j)' /\ a \in Procs
  BY <1>0 DEF TInv, Decided
<1>c. c \in Command /\ c \notin Msgs(j) /\ c \notin Finals(j) /\ c \in Results(j) /\ c \notin Adds(j)
      /\ c.op \notin {"purge", "late"}
  BY Written, Kinds DEF Own
<1>w. Buffers(a, c) \/ Executed(a, c) \/ (Refused(a) /\ r # "ok")
  BY <1>0, <1>c, <1>d, Writes
<1> HIDE DEF c
<1>n. /\ ~Seen(j) /\ \A l \in Lists : zset[l][j] = 0
      /\ \A q \in Procs : Cmds(q) \cap (Adds(j) \cup Finals(j)) = {}
  BY <1>d DEF JInv, ListedOnce
<1>p. /\ \A q \in Procs \ {a} : pipe'[q] = pipe[q] /\ Cmds(q)' = Cmds(q)
      /\ (Cmds(a)' = Cmds(a) /\ pipe'[a] = pipe[a]) \/ Cmds(a)' = Cmds(a) \cup {c}
      /\ Buffers(a, c) => Cmds(a)' = Cmds(a) \cup {c}
      /\ Ascending(pipe[a], j) => Ascending(pipe'[a], j)
  <2>1. CASE Buffers(a, c)
    BY <1>c, <1>d, <2>1, PipeGrows DEF Buffers
  <2>2. CASE UNCHANGED pipe /\ a \notin piped
    BY <2>2 DEF Cmds, Buffers
  <2>. QED
    BY <1>w, <2>1, <2>2 DEF Executed, Refused
<1>s. /\ msg'[j] = msg[j]
      /\ Executed(a, c) => j \in result'
      /\ ~Executed(a, c) => (j \in result' <=> j \in result)
      /\ \A l \in Lists : zset'[l][j] = zset[l][j]
  <2>1. CASE Executed(a, c)
    <3>1. Effect(c, j)
      BY <1>c, <2>1, Executes DEF Executed
    <3>. QED
      BY <1>c, <2>1, <3>1 DEF Effect
  <2>2. CASE UNCHANGED store /\ ~Executed(a, c)
    BY <2>2 DEF store
  <2>. QED
    BY <1>w, <2>1, <2>2 DEF Buffers, Refused, Executed
<1>0a. ~Seen(j)' /\ \A q \in Procs : Cmds(q)' \cap (Adds(j) \cup Finals(j)) = {}
  BY <1>c, <1>n, <1>p, <1>s DEF Seen
<1>1. ListedOnce(j)'
  BY <1>0a, <1>d, <1>n, <1>s DEF ListedOnce
<1>2. InOrder(j)'
  <2>1. ASSUME NEW q \in Procs PROVE Before(pipe'[q], Adds(j) \cup Results(j), Finals(j))
    <3>1. \A i \in DOMAIN pipe'[q] : pipe'[q][i] \notin Finals(j)
      BY <1>0a, ToSetHas DEF Cmds
    <3>. QED
      BY <3>1 DEF Before
  <2>. QED
    BY <1>0a, <2>1 DEF InOrder, Seen
<1>3. Backing(j)'
  <2>1. ~job'[j].kept /\ job'[j].pc \notin {"listed", "end"}
    BY <1>d DEF TInv, Decided, Final
  <2>2. ~(msg'[j].status \in Final \/ Coming(j)')
    BY <1>0a DEF Seen, Coming
  <2>3. ASSUME job'[j].pc = "saved" PROVE HasResult(j)'
    <3>1. Cmds(job[j].at)' = Cmds(a)'
      BY <1>0 DEF Cmds
    <3>. QED
      BY <1>c, <1>p, <1>s, <1>w, <2>3, <3>1 DEF HasResult
  <2>. QED
    BY <2>1, <2>2, <2>3 DEF Backing
<1>4. Deleted(j)'
  BY <1>s DEF JInv, Deleted, Lists
<1>5. NoRace(j)'
  <2> SUFFICES ASSUME j \notin raced
               PROVE  /\ \A q \in Procs \ {a} : Followed(pipe'[q], Results(j), Msgs(j))
                      /\ \A q1, q2 \in Procs : q1 # q2 => Cmds(q1)' \cap Msgs(j) = {} \/ Cmds(q2)' \cap Msgs(j) = {}
    BY <1>0, <1>0a DEF NoRace, Seen
  <2>1. \A q \in Procs \ {a} : Followed(pipe'[q], Results(j), Msgs(j))
    BY <1>0, <1>p DEF JInv, NoRace
  <2>2. \A q \in Procs : Cmds(q)' \cap Msgs(j) = Cmds(q) \cap Msgs(j)
    BY <1>c, <1>p
  <2>. QED
    BY <2>1, <2>2 DEF JInv, NoRace
<1>6. Forward(j)'
  <2>1. JobRank(j) <= JobRank(j)'
    <3>1. job[j].n \in Nat /\ job[j].n <= Retries /\ Retries \in Nat
      BY StoreAssumption DEF TInv, TypeOK
    <3>. QED
      BY <3>1 DEF JobRank, RankOf
  <2>2. \A q \in Procs : Cmds(q)' \cap Msgs(j) \subseteq Cmds(q)
    BY <1>c, <1>p
  <2>3. \A q \in Procs : Ascending(pipe[q], j) => Ascending(pipe'[q], j)
    BY <1>p
  <2>. QED
    BY <1>s, <2>1, <2>2, <2>3, ForwardStays DEF JInv
<1>. QED
  BY <1>1, <1>2, <1>3, <1>4, <1>5, <1>6 DEF JInv

(***************************************************************************)
(* A worker decides on the list of a job, once (SetSuccess, SetFailed).    *)
(***************************************************************************)
LEMMA ListWritten ==
  ASSUME TInv, TInv', NEW j \in Jobs, JInv(j), job[j].pc \in {"running", "saved"},
         NEW l \in Lists, l = "success" /\ job[j].chained => j \in result,
         NEW r \in Replies, Write(job[j].at, ZAdd(l, j), r),
         UNCHANGED <<now, piped, raced>>, delete'[j] = delete[j],
         job'[j].pc = (IF r = "ok" THEN "listed" ELSE "stuck"),
         job'[j].at = job[j].at, job'[j].n = job[j].n, job'[j].since = now, job'[j].verdict = Verdict(l),
         job'[j].kept => Kept(j, l)
  PROVE  JInv(j)'
<1> DEFINE c == ZAdd(l, j)
<1>0. PICK a : a = job[j].at
  OBVIOUS
<1>d. ~Decided(j) /\ Decided(j)' /\ a \in Procs /\ now > 0
  BY <1>0 DEF TInv, TypeOK, Decided, Verdict, Final
<1>v. \A k \in Lists : Verdict(k) = Verdict(l) => k = l
  BY DEF Verdict, Lists
<1>c. c \in Command /\ c \notin Msgs(j) /\ c \notin Finals(j) /\ c \notin Results(j) /\ c \in Adds(j)
      /\ c.op \notin {"purge", "late"} /\ c.list = l /\ c.score = now
  BY Written, Kinds DEF Own
<1>w. Buffers(a, c) \/ Executed(a, c) \/ (Refused(a) /\ r # "ok")
  BY <1>0, <1>c, <1>d, Writes
<1>f. faults <= faults' /\ faults \in Nat /\ faults' \in Nat
  <2>1. faults <= faults' /\ faults' \in 0 .. MaxFaults
    BY <1>0, <1>c, <1>d, Writes
  <2>. QED
    BY <2>1 DEF TInv, TypeOK
<1> HIDE DEF c
<1>n. /\ ~Seen(j) /\ \A k \in Lists : zset[k][j] = 0
      /\ \A q \in Procs : Cmds(q) \cap (Adds(j) \cup Finals(j)) = {}
  BY <1>d DEF JInv, ListedOnce
<1>p. /\ \A q \in Procs \ {a} : pipe'[q] = pipe[q] /\ Cmds(q)' = Cmds(q)
      /\ (Cmds(a)' = Cmds(a) /\ pipe'[a] = pipe[a]) \/ Cmds(a)' = Cmds(a) \cup {c}
      /\ Buffers(a, c) => Cmds(a)' = Cmds(a) \cup {c}
      /\ Ascending(pipe[a], j) => Ascending(pipe'[a], j)
  <2>1. CASE Buffers(a, c)
    BY <1>c, <1>d, <2>1, PipeGrows DEF Buffers
  <2>2. CASE UNCHANGED pipe /\ a \notin piped
    BY <2>2 DEF Cmds, Buffers
  <2>. QED
    BY <1>w, <2>1, <2>2 DEF Executed, Refused
<1>s. /\ msg'[j] = msg[j] /\ (j \in result' <=> j \in result)
      /\ \A k \in Lists : zset'[k][j] \in (IF k = l THEN {0, now} ELSE {0})
      /\ Executed(a, c) => zset'[l][j] = now
  <2>1. CASE Executed(a, c)
    <3>1. Effect(c, j)
      BY <1>c, <2>1, Executes DEF Executed
    <3>. QED
      BY <1>c, <1>n, <2>1, <3>1 DEF Effect
  <2>2. CASE UNCHANGED store /\ ~Executed(a, c)
    BY <1>n, <2>2 DEF store
  <2>. QED
    BY <1>w, <2>1, <2>2 DEF Buffers, Refused, Executed
<1>0a. /\ ~Seen(j)' /\ \A q \in Procs : Cmds(q)' \cap Finals(j) = {}
       /\ \A q \in Procs \ {a} : Cmds(q)' \cap Adds(j) = {}
       /\ \A d \in Cmds(a)' \cap Adds(j) : d = c
       /\ Cmds(job[j].at)' = Cmds(a)' /\ Cmds(job[j].at) = Cmds(a)
  <2>1. ~Seen(j)'
    BY <1>n, <1>s DEF Seen
  <2>2. Cmds(job[j].at)' = Cmds(a)' /\ Cmds(job[j].at) = Cmds(a)
    BY <1>0 DEF Cmds
  <2>3. \A q \in Procs : Cmds(q) \cap Adds(j) = {} /\ Cmds(q) \cap Finals(j) = {}
    BY <1>n
  <2>4. \A q \in Procs : Cmds(q)' \cap Finals(j) = {}
    BY <1>c, <1>p, <2>3
  <2>5. \A q \in Procs \ {a} : Cmds(q)' \cap Adds(j) = {}
    BY <1>p, <2>3
  <2>6. \A d \in Cmds(a)' \cap Adds(j) : d = c
    BY <1>d, <1>p, <2>3
  <2>. QED
    BY <2>1, <2>2, <2>4, <2>5, <2>6
<1>1. ListedOnce(j)'
  <2>1. \A k \in Lists : zset'[k][j] \in (IF Verdict(k) = job'[j].verdict THEN {0, job'[j].since} ELSE {0})
    BY <1>s, <1>v
  <2>2. \A q \in Procs \ {a} : Cmds(q)' \cap (Adds(j) \cup Finals(j)) = {}
    BY <1>0a
  <2>3. /\ \A d \in Cmds(job[j].at)' \cap Adds(j) : Verdict(d.list) = job'[j].verdict /\ d.score = job'[j].since
        /\ \A d \in Cmds(job[j].at)' \cap Finals(j) : d.msg.status = job'[j].verdict /\ d.msg.since = job'[j].since
    BY <1>0a, <1>c, <1>d
  <2>4. msg'[j].status \notin Final
    BY <1>0a DEF Seen
  <2>. QED
    BY <1>0, <1>d, <2>1, <2>2, <2>3, <2>4 DEF ListedOnce
<1>2. InOrder(j)'
  <2>1. ASSUME NEW q \in Procs PROVE Before(pipe'[q], Adds(j) \cup Results(j), Finals(j))
    <3>1. \A i \in DOMAIN pipe'[q] : pipe'[q][i] \notin Finals(j)
      BY <1>0a, ToSetHas DEF Cmds
    <3>. QED
      BY <3>1 DEF Before
  <2>. QED
    BY <1>0a, <2>1 DEF InOrder, Seen
<1>3. Backing(j)'
  <2> SUFFICES ASSUME Good(j)'
               PROVE  /\ job'[j].kept => HasResult(j)'
                      /\ job'[j].pc = "listed" => HasEntry(j)'
    <3>1. ~(msg'[j].status \in Final \/ Coming(j)') /\ job'[j].pc \notin {"saved", "end"}
      BY <1>0a DEF Seen, Coming
    <3>. QED
      BY <3>1 DEF Backing
  <2>1. ASSUME job'[j].kept PROVE HasResult(j)'
    <3>1. Kept(j, l) /\ Good(j)
      BY <1>0, <1>f, <2>1 DEF Good
    <3>2. HasResult(j)
      BY <3>1 DEF JInv, Backing, Kept, HasResult
    <3>3. Cmds(a) \subseteq Cmds(a)'
      BY <1>p
    <3>. QED
      BY <1>0a, <1>s, <3>2, <3>3 DEF HasResult
  <2>2. ASSUME job'[j].pc = "listed" PROVE HasEntry(j)'
    <3>1. CASE Executed(a, c)
      BY <1>d, <1>s, <3>1 DEF HasEntry
    <3>2. CASE Buffers(a, c)
      BY <1>0a, <1>c, <1>p, <3>2 DEF HasEntry
    <3>. QED
      BY <1>w, <2>2, <3>1, <3>2
  <2>. QED
    BY <2>1, <2>2
<1>4. Deleted(j)'
  BY <1>0a DEF Deleted, Seen
<1>5. NoRace(j)'
  <2> SUFFICES ASSUME j \notin raced
               PROVE  /\ \A q \in Procs \ {a} : Followed(pipe'[q], Results(j), Msgs(j))
                      /\ \A q1, q2 \in Procs : q1 # q2 => Cmds(q1)' \cap Msgs(j) = {} \/ Cmds(q2)' \cap Msgs(j) = {}
    BY <1>0, <1>0a DEF NoRace, Seen
  <2>1. \A q \in Procs \ {a} : Followed(pipe'[q], Results(j), Msgs(j))
    BY <1>0, <1>p DEF JInv, NoRace
  <2>2. \A q \in Procs : Cmds(q)' \cap Msgs(j) = Cmds(q) \cap Msgs(j)
    BY <1>c, <1>p
  <2>. QED
    BY <2>1, <2>2 DEF JInv, NoRace
<1>6. Forward(j)'
  <2>1. JobRank(j) <= JobRank(j)'
    <3>1. job[j].n \in Nat /\ job[j].n <= Retries /\ Retries \in Nat
      BY StoreAssumption DEF TInv, TypeOK
    <3>. QED
      BY <3>1 DEF JobRank, RankOf
  <2>2. \A q \in Procs : Cmds(q)' \cap Msgs(j) \subseteq Cmds(q)
    BY <1>c, <1>p
  <2>3. \A q \in Procs : Ascending(pipe[q], j) => Ascending(pipe'[q], j)
    BY <1>p
  <2>. QED
    BY <1>s, <2>1, <2>2, <2>3, ForwardStays DEF JInv
<1>. QED
  BY <1>1, <1>2, <1>3, <1>4, <1>5, <1>6 DEF JInv

-----------------------------------------------------------------------------
(* Buffered commands are executed, or lost                                 *)

LEMMA PipeShrinks ==
  ASSUME TInv, NEW j \in Jobs, NEW p \in Procs, pipe[p] # <<>>, pipe' = [pipe EXCEPT ![p] = Tail(@)]
  PROVE  LET h == Head(pipe[p]) IN
         /\ h \in Command /\ Cmds(p) = Cmds(p)' \cup {h}
         /\ \A q \in Procs \ {p} : pipe'[q] = pipe[q] /\ Cmds(q)' = Cmds(q)
         /\ \A A, B : Before(pipe[p], A, B) => Before(pipe'[p], A, B) /\ (h \in B => Cmds(p) \cap A = {})
         /\ \A A, B : Followed(pipe[p], A, B) => Followed(pipe'[p], A, B)
         /\ Ascending(pipe[p], j) =>
              /\ Ascending(pipe'[p], j)
              /\ h \in Msgs(j) => \A d \in Cmds(p)' \cap Msgs(j) : Rank(h.msg) < Rank(d.msg)
<1>t. pipe \in [Procs -> Seq(Command)]
  BY DEF TInv
<1>1. PICK s, t, h : s = pipe[p] /\ t = Tail(s) /\ h = Head(s)
  OBVIOUS
<1>2. s \in Seq(Command) /\ s # <<>> /\ pipe' = [pipe EXCEPT ![p] = t]
  BY <1>t, <1>1
<1>3. pipe'[p] = t /\ \A q \in Procs \ {p} : pipe'[q] = pipe[q]
  BY <1>t, <1>2
<1>4. /\ h \in Command /\ ToSet(s) = ToSet(t) \cup {h}
      /\ \A A, B : Before(s, A, B) => Before(t, A, B) /\ (h \in B => ToSet(s) \cap A = {})
      /\ \A A, B : Followed(s, A, B) => Followed(t, A, B)
      /\ Ascending(s, j) =>
           /\ Ascending(t, j)
           /\ h \in Msgs(j) => \A d \in ToSet(t) \cap Msgs(j) : Rank(h.msg) < Rank(d.msg)
  BY <1>1, <1>2, TakenOff
<1>. QED
  BY <1>1, <1>3, <1>4 DEF Cmds

(***************************************************************************)
(* Redis executes a command of job j out of a pipe (execPipe).             *)
(***************************************************************************)
LEMMA OwnSent ==
  ASSUME TInv, TInv', NEW j \in Jobs, JInv(j), NEW p \in Procs, pipe[p] # <<>>,
         Head(pipe[p]) \in Own(j), Execute(Head(pipe[p])), pipe' = [pipe EXCEPT ![p] = Tail(@)],
         UNCHANGED <<now, piped, job, late, delete, raced, faults>>
  PROVE  JInv(j)'
<1>0. PICK h : h = Head(pipe[p])
  OBVIOUS
<1>p. /\ h \in Command /\ Cmds(p) = Cmds(p)' \cup {h}
      /\ \A q \in Procs \ {p} : pipe'[q] = pipe[q] /\ Cmds(q)' = Cmds(q)
      /\ \A A, B : Before(pipe[p], A, B) => Before(pipe'[p], A, B) /\ (h \in B => Cmds(p) \cap A = {})
      /\ \A A, B : Followed(pipe[p], A, B) => Followed(pipe'[p], A, B)
      /\ Ascending(pipe[p], j) =>
           /\ Ascending(pipe'[p], j)
           /\ h \in Msgs(j) => \A d \in Cmds(p)' \cap Msgs(j) : Rank(h.msg) < Rank(d.msg)
  BY <1>0, PipeShrinks
<1>q. \A q \in Procs : Cmds(q)' \subseteq Cmds(q)
  BY <1>p
<1>e. Effect(h, j) /\ h.op \notin {"purge", "late"}
  BY <1>0, <1>p, Executes, Kinds
<1>k. /\ h \in Msgs(j) \/ h \in Results(j) \/ h \in Adds(j)
      /\ Finals(j) \subseteq Msgs(j)
      /\ h \in Msgs(j) => h \notin Results(j) /\ h \notin Adds(j)
      /\ h \in Results(j) => h \notin Msgs(j) /\ h \notin Adds(j)
      /\ h \in Adds(j) => h \notin Msgs(j) /\ h \notin Results(j)
  BY <1>0, Kinds DEF Own
<1>s. /\ msg'[j] = IF h \in Msgs(j) THEN h.msg ELSE msg[j]
      /\ j \in result' <=> j \in result \/ h \in Results(j)
      /\ \A l \in Lists : zset'[l][j] = IF h \in Adds(j) /\ h.list = l THEN h.score ELSE zset[l][j]
  BY <1>e DEF Effect
<1>f. h \in Msgs(j) => (h.msg.status \in Final <=> h \in Finals(j))
  BY DEF Finals
<1>a. h \in Adds(j) \/ h \in Finals(j) =>
        /\ Decided(j) /\ p = job[j].at /\ job[j].since > 0 /\ job[j].since \in Nat
        /\ h \in Adds(j) => Verdict(h.list) = job[j].verdict /\ h.score = job[j].since /\ h.list \in Lists
        /\ h \in Finals(j) => h.msg.status = job[j].verdict /\ h.msg.since = job[j].since
  <2>1. h \in Cmds(p)
    BY <1>p
  <2>2. job[j].since \in Nat
    BY DEF TInv, TypeOK
  <2>. QED
    BY <2>1, <2>2, Kinds DEF JInv, ListedOnce
<1>o. h \in Finals(j) => Cmds(p) \cap (Adds(j) \cup Results(j)) = {}
  BY <1>p DEF JInv, InOrder
<1>b. /\ Seen(j)' <=> (IF h \in Msgs(j) THEN h \in Finals(j) \/ delete[j] # "none" ELSE Seen(j))
      /\ Decided(j)' = Decided(j) /\ Good(j)' = Good(j)
      /\ Coming(j)' => Coming(j)
      /\ h \in Finals(j) => Coming(j)
  <2>1. Seen(j)' <=> (IF h \in Msgs(j) THEN h \in Finals(j) \/ delete[j] # "none" ELSE Seen(j))
    BY <1>f, <1>s DEF Seen
  <2>2. Decided(j)' = Decided(j) /\ Good(j)' = Good(j)
    BY DEF Decided, Good
  <2>3. Coming(j)' => Coming(j)
    BY <1>q DEF Coming
  <2>4. h \in Finals(j) => Coming(j)
    BY <1>p DEF Coming
  <2>. QED
    BY <2>1, <2>2, <2>3, <2>4
<1>1. ListedOnce(j)'
  <2>1. CASE ~Decided(j)
    <3>1. h \notin Adds(j) /\ h \notin Finals(j) /\ ~Seen(j)
      BY <1>a, <2>1 DEF JInv, ListedOnce
    <3>2. ~Seen(j)' /\ \A l \in Lists : zset'[l][j] = 0
      BY <1>b, <1>s, <2>1, <3>1 DEF JInv, ListedOnce, Seen
    <3>3. \A q \in Procs : Cmds(q)' \cap (Adds(j) \cup Finals(j)) = {}
      BY <1>q, <2>1 DEF JInv, ListedOnce
    <3>. QED
      BY <1>b, <2>1, <3>2, <3>3 DEF ListedOnce
  <2>2. CASE Decided(j)
    <3>1. /\ job[j].at \in Procs /\ job[j].since > 0
          /\ msg[j].status \in Final => msg[j].status = job[j].verdict /\ msg[j].since = job[j].since
          /\ \A l \in Lists : zset[l][j] \in (IF Verdict(l) = job[j].verdict THEN {0, job[j].since} ELSE {0})
          /\ \A q \in Procs \ {job[j].at} : Cmds(q) \cap (Adds(j) \cup Finals(j)) = {}
          /\ \A d \in Cmds(job[j].at) \cap Adds(j) : Verdict(d.list) = job[j].verdict /\ d.score = job[j].since
          /\ \A d \in Cmds(job[j].at) \cap Finals(j) :
               d.msg.status = job[j].verdict /\ d.msg.since = job[j].since
      BY <2>2 DEF JInv, ListedOnce
    <3>2. msg'[j].status \in Final => msg'[j].status = job[j].verdict /\ msg'[j].since = job[j].since
      BY <1>a, <1>f, <1>s, <3>1
    <3>3. \A l \in Lists : zset'[l][j] \in (IF Verdict(l) = job[j].verdict THEN {0, job[j].since} ELSE {0})
      BY <1>a, <1>s, <3>1
    <3>4. /\ \A q \in Procs \ {job[j].at} : Cmds(q)' \cap (Adds(j) \cup Finals(j)) = {}
          /\ \A d \in Cmds(job[j].at)' \cap Adds(j) : Verdict(d.list) = job[j].verdict /\ d.score = job[j].since
          /\ \A d \in Cmds(job[j].at)' \cap Finals(j) :
               d.msg.status = job[j].verdict /\ d.msg.since = job[j].since
      BY <1>q, <3>1
    <3>. QED
      BY <1>b, <2>2, <3>1, <3>2, <3>3, <3>4 DEF ListedOnce
  <2>. QED
    BY <2>1, <2>2
<1>2. InOrder(j)'
  <2>1. \A q \in Procs : Before(pipe'[q], Adds(j) \cup Results(j), Finals(j))
    BY <1>p DEF JInv, InOrder
  <2>2. ASSUME Seen(j)', NEW q \in Procs PROVE Cmds(q)' \cap Adds(j) = {}
    <3>1. CASE Seen(j)
      BY <1>q, <3>1 DEF JInv, InOrder
    <3>2. CASE ~Seen(j)
      <4>1. h \in Finals(j)
        BY <1>b, <2>2, <3>2 DEF Seen
      <4>2. CASE q = p
        BY <1>o, <1>q, <4>1, <4>2
      <4>3. CASE q # p
        BY <1>a, <1>q, <4>1, <4>3 DEF JInv, ListedOnce
      <4>. QED
        BY <4>2, <4>3
    <3>. QED
      BY <3>1, <3>2
  <2>3. ASSUME msg'[j].status \in Final PROVE Cmds(job[j].at)' \cap Results(j) = {}
    <3>1. CASE h \in Finals(j)
      BY <1>a, <1>o, <1>q, <3>1
    <3>2. CASE h \notin Finals(j)
      <4>1. msg[j].status \in Final
        BY <1>f, <1>s, <2>3, <3>2
      <4>2. job[j].at \in Procs
        BY <4>1, Placed DEF JInv, Seen
      <4>. QED
        BY <1>q, <4>1, <4>2 DEF JInv, InOrder
    <3>. QED
      BY <3>1, <3>2
  <2>. QED
    BY <2>1, <2>2, <2>3 DEF InOrder
<1>3. Backing(j)'
  <2> SUFFICES ASSUME Good(j)
               PROVE  /\ (job[j].pc = "saved" \/ job[j].kept) => HasResult(j)'
                      /\ (job[j].pc \in {"listed", "end"} \/ msg'[j].status \in Final \/ Coming(j)') => HasEntry(j)'
    BY <1>b DEF Backing
  <2>1. ASSUME job[j].pc = "saved" \/ job[j].kept PROVE HasResult(j)'
    <3>1. job[j].at \in Procs /\ HasResult(j)
      BY <2>1, Placed DEF JInv, Backing
    <3>2. CASE j \in result
      BY <1>s, <3>2 DEF HasResult
    <3>3. ASSUME NEW d \in Cmds(job[j].at) \cap Results(j) PROVE HasResult(j)'
      <4>1. d \in Cmds(job[j].at)' \/ d = h
        BY <1>p, <3>1
      <4>. QED
        BY <1>s, <3>3, <4>1 DEF HasResult
    <3>. QED
      BY <3>1, <3>2, <3>3 DEF HasResult
  <2>2. ASSUME job[j].pc \in {"listed", "end"} \/ msg'[j].status \in Final \/ Coming(j)' PROVE HasEntry(j)'
    <3>0. job[j].pc \in {"listed", "end"} \/ msg[j].status \in Final \/ Coming(j)
      BY <1>b, <1>f, <1>s, <2>2
    <3>1. job[j].at \in Procs /\ HasEntry(j)
      BY <3>0, Placed DEF JInv, Backing, Seen
    <3>2. ASSUME NEW l \in Lists, Verdict(l) = job[j].verdict, zset[l][j] # 0 PROVE HasEntry(j)'
      <4>1. zset'[l][j] # 0
        BY <1>a, <1>s, <3>2
      <4>. QED
        BY <3>2, <4>1 DEF HasEntry
    <3>3. ASSUME NEW d \in Cmds(job[j].at) \cap Adds(j) PROVE HasEntry(j)'
      <4>1. CASE d \in Cmds(job[j].at)'
        BY <3>3, <4>1 DEF HasEntry
      <4>2. CASE d = h
        <5>1. h.list \in Lists /\ Verdict(h.list) = job[j].verdict /\ zset'[h.list][j] # 0
          BY <1>a, <1>s, <3>3, <4>2
        <5>. QED
          BY <5>1 DEF HasEntry
      <4>. QED
        BY <1>p, <3>1, <3>3, <4>1, <4>2
    <3>4. CASE Purgers # {} /\ job[j].since + MetaExpiry <= now
      BY <3>4 DEF HasEntry
    <3>. QED
      BY <3>1, <3>2, <3>3, <3>4 DEF HasEntry
  <2>. QED
    BY <2>1, <2>2
<1>4. Deleted(j)'
  <2>1. CASE delete[j] = "none"
    BY <2>1 DEF Deleted
  <2>2. CASE delete[j] # "none"
    <3>1. h \notin Adds(j)
      BY <1>p, <2>2 DEF JInv, InOrder, Seen
    <3>. QED
      BY <1>s, <3>1 DEF JInv, Deleted, Lists
  <2>. QED
    BY <2>1, <2>2
<1>5. NoRace(j)'
  <2> SUFFICES ASSUME j \notin raced PROVE NoRace(j)'
    BY DEF NoRace
  <2>0. /\ \A q \in Procs \ {job[j].at} : Followed(pipe[q], Results(j), Msgs(j))
        /\ \A q1, q2 \in Procs : q1 # q2 => Cmds(q1) \cap Msgs(j) = {} \/ Cmds(q2) \cap Msgs(j) = {}
        /\ \A q1, q2 \in Procs : q1 # q2 => Cmds(q1) \cap Finals(j) = {} \/ Cmds(q2) \cap Results(j) = {}
        /\ Seen(j) => \A q \in Procs : Cmds(q) \cap Results(j) = {}
        /\ delete[j] = "ok" /\ ~Overran(j) => j \notin result
        /\ Overran(j)' = Overran(j)
    BY DEF JInv, NoRace, Overran
  <2>1. \A q \in Procs \ {job[j].at} : Followed(pipe'[q], Results(j), Msgs(j))
    BY <1>p, <2>0
  <2>2. /\ \A q1, q2 \in Procs : q1 # q2 => Cmds(q1)' \cap Msgs(j) = {} \/ Cmds(q2)' \cap Msgs(j) = {}
        /\ \A q1, q2 \in Procs : q1 # q2 => Cmds(q1)' \cap Finals(j) = {} \/ Cmds(q2)' \cap Results(j) = {}
    BY <1>q, <2>0
  <2>3. ASSUME Seen(j)', NEW q \in Procs PROVE Cmds(q)' \cap Results(j) = {}
    <3>1. CASE Seen(j)
      BY <1>q, <2>0, <3>1
    <3>2. CASE ~Seen(j)
      <4>1. h \in Finals(j) /\ h \in Cmds(p)
        BY <1>b, <1>p, <2>3, <3>2 DEF Seen
      <4>. QED
        BY <1>o, <1>q, <2>0, <4>1
    <3>. QED
      BY <3>1, <3>2
  <2>4. ASSUME delete[j] = "ok", ~Overran(j) PROVE j \notin result'
    <3>1. Seen(j) /\ h \in Cmds(p)
      BY <1>p, <2>4 DEF Seen
    <3>. QED
      BY <1>s, <2>0, <2>4, <3>1
  <2>. QED
    BY <2>0, <2>1, <2>2, <2>3, <2>4 DEF NoRace
<1>6. Forward(j)'
  <2>t. job[j] \in JobState /\ msg[j] \in Msg
    BY DEF TInv, TypeOK, JobState
  <2>j. JobRank(j)' = JobRank(j) /\ JobRank(j) \in Nat
    BY <2>t, RankType DEF JobRank
  <2>0. /\ \A q \in Procs : \A d \in Cmds(q)' \cap Msgs(j) : Rank(d.msg) <= JobRank(j)
        /\ \A d \in Cmds(p) \cap Msgs(j) : Rank(d.msg) <= JobRank(j)
    BY <1>q DEF JInv, Forward
  <2>1. CASE h \in Msgs(j)
    <3>1. msg'[j] = h.msg /\ h \in Cmds(p)
      BY <1>p, <1>s, <2>1
    <3>2. Rank(msg'[j]) <= JobRank(j)
      BY <2>0, <2>1, <3>1
    <3>3. ASSUME j \notin raced, NEW q \in Procs
          PROVE  /\ Ascending(pipe'[q], j)
                 /\ \A d \in Cmds(q)' \cap Msgs(j) : Rank(msg'[j]) < Rank(d.msg)
      <4>0. Ascending(pipe[q], j)
        BY <3>3 DEF JInv, Forward
      <4>1. CASE q = p
        BY <1>p, <2>1, <3>1, <4>0, <4>1
      <4>2. CASE q # p
        <5>1. Cmds(q) \cap Msgs(j) = {}
          BY <2>1, <3>1, <3>3, <4>2 DEF JInv, NoRace
        <5>. QED
          BY <1>p, <4>0, <4>2, <5>1
      <4>. QED
        BY <4>1, <4>2
    <3>. QED
      BY <2>0, <2>j, <3>2, <3>3 DEF Forward
  <2>2. CASE h \notin Msgs(j)
    <3>1. msg'[j] = msg[j]
      BY <1>s, <2>2
    <3>2. \A q \in Procs : /\ Cmds(q)' \cap Msgs(j) \subseteq Cmds(q)
                           /\ Ascending(pipe[q], j) => Ascending(pipe'[q], j)
      BY <1>p, <1>q
    <3>. QED
      BY <2>j, <3>1, <3>2, ForwardStays DEF JInv
  <2>. QED
    BY <2>1, <2>2
<1>. QED
  BY <1>1, <1>2, <1>3, <1>4, <1>5, <1>6 DEF JInv

(***************************************************************************)
(* A pipe is lost, in an Exec that fails or with its process, or a worker  *)
(* gives a job up.                                                         *)
(***************************************************************************)
LEMMA SomethingLost ==
  ASSUME TInv, TInv', NEW j \in Jobs, JInv(j),
         \A q \in Procs : pipe'[q] = pipe[q] \/ (pipe'[q] = <<>> /\ faults' # 0),
         UNCHANGED <<now, msg, result, zset, piped, delete, raced>>, faults <= faults',
         Overran(j) => Overran(j)', job'[j] = job[j] \/ job'[j] = [job[j] EXCEPT !.pc = "stuck"]
  PROVE  JInv(j)'
<1>0. /\ job[j] \in JobState /\ job'[j].at = job[j].at /\ job'[j].since = job[j].since
      /\ job'[j].verdict = job[j].verdict /\ job'[j].n = job[j].n /\ job'[j].kept = job[j].kept
      /\ job'[j].pc = job[j].pc \/ job'[j].pc = "stuck"
      /\ faults \in Nat /\ faults' \in Nat
  <2>1. job[j] \in JobState /\ faults \in Nat /\ faults' \in Nat
    BY DEF TInv, TypeOK, JobState
  <2>. QED
    BY <2>1 DEF JobState
<1>q. \A q \in Procs :
        /\ Cmds(q)' \subseteq Cmds(q)
        /\ Ascending(pipe[q], j) => Ascending(pipe'[q], j)
        /\ \A A, B : Before(pipe[q], A, B) => Before(pipe'[q], A, B)
        /\ \A A, B : Followed(pipe[q], A, B) => Followed(pipe'[q], A, B)
  <2> TAKE q \in Procs
  <2>1. CASE pipe'[q] = pipe[q]
    BY <2>1 DEF Cmds
  <2>2. CASE pipe'[q] = <<>>
    BY <2>2, NoCommands DEF Cmds
  <2>. QED
    BY <2>1, <2>2
<1>b. Decided(j)' = Decided(j) /\ Seen(j)' = Seen(j) /\ (Coming(j)' => Coming(j))
  BY <1>0, <1>q DEF Decided, Seen, Coming
<1>c. Cmds(job[j].at)' = ToSet(pipe'[job[j].at]) /\ Cmds(job[j].at) = ToSet(pipe[job[j].at])
  BY <1>0 DEF Cmds
<1>a. job[j].at \in Procs => Cmds(job[j].at)' \subseteq Cmds(job[j].at)
  <2>1. ASSUME NEW q \in Procs, q = job[j].at PROVE Cmds(job[j].at)' \subseteq Cmds(job[j].at)
    <3>1. ToSet(pipe'[q]) \subseteq ToSet(pipe[q])
      BY <1>q DEF Cmds
    <3>. QED
      BY <1>c, <2>1, <3>1
  <2>. QED
    BY <2>1
<1>1. ListedOnce(j)'
  <2>1. CASE ~Decided(j)
    BY <1>b, <1>q, <2>1 DEF JInv, ListedOnce
  <2>2. CASE Decided(j)
    <3>1. /\ job[j].at \in Procs /\ job[j].since > 0
          /\ msg[j].status \in Final => msg[j].status = job[j].verdict /\ msg[j].since = job[j].since
          /\ \A l \in Lists : zset[l][j] \in (IF Verdict(l) = job[j].verdict THEN {0, job[j].since} ELSE {0})
          /\ \A q \in Procs \ {job[j].at} : Cmds(q) \cap (Adds(j) \cup Finals(j)) = {}
          /\ \A d \in Cmds(job[j].at) \cap Adds(j) : Verdict(d.list) = job[j].verdict /\ d.score = job[j].since
          /\ \A d \in Cmds(job[j].at) \cap Finals(j) :
               d.msg.status = job[j].verdict /\ d.msg.since = job[j].since
      BY <2>2 DEF JInv, ListedOnce
    <3>2. \A q \in Procs \ {job[j].at} : Cmds(q)' \cap (Adds(j) \cup Finals(j)) = {}
      BY <1>q, <3>1
    <3>3. /\ \A d \in Cmds(job[j].at)' \cap Adds(j) : Verdict(d.list) = job[j].verdict /\ d.score = job[j].since
          /\ \A d \in Cmds(job[j].at)' \cap Finals(j) :
               d.msg.status = job[j].verdict /\ d.msg.since = job[j].since
      BY <1>a, <3>1
    <3>. QED
      BY <1>0, <1>b, <2>2, <3>1, <3>2, <3>3 DEF ListedOnce
  <2>. QED
    BY <2>1, <2>2
<1>2. InOrder(j)'
  <2>1. \A q \in Procs : Before(pipe'[q], Adds(j) \cup Results(j), Finals(j))
    BY <1>q DEF JInv, InOrder
  <2>2. Seen(j)' => \A q \in Procs : Cmds(q)' \cap Adds(j) = {}
    BY <1>b, <1>q DEF JInv, InOrder
  <2>3. msg'[j].status \in Final => Cmds(job[j].at)' \cap Results(j) = {}
    <3>1. msg[j].status \in Final => job[j].at \in Procs
      BY Placed DEF JInv, Seen
    <3>. QED
      BY <1>a, <3>1 DEF JInv, InOrder
  <2>. QED
    BY <2>1, <2>2, <2>3 DEF InOrder
<1>3. Backing(j)'
  <2> SUFFICES ASSUME Good(j)'
               PROVE  /\ (job[j].pc = "saved" \/ job[j].kept) => HasResult(j)'
                      /\ (job[j].pc \in {"listed", "end"} \/ msg[j].status \in Final \/ Coming(j)) => HasEntry(j)'
    BY <1>0, <1>b DEF Backing
  <2>1. Good(j)
    BY <1>0 DEF Good
  <2>2. ASSUME job[j].at \in Procs PROVE Cmds(job[j].at)' = Cmds(job[j].at)
    <3>1. PICK q \in Procs : q = job[j].at
      BY <2>2
    <3>2. CASE q \in piped
      <4>1. faults' = 0
        BY <1>0, <3>1, <3>2 DEF Good
      <4>2. pipe'[q] = pipe[q]
        BY <4>1
      <4>. QED
        BY <1>c, <3>1, <4>2
    <3>3. CASE q \notin piped
      <4>1. pipe[q] = <<>>
        BY <3>3 DEF TInv, TypeOK
      <4>2. pipe'[q] = pipe[q]
        BY <4>1
      <4>. QED
        BY <1>c, <3>1, <4>2
    <3>. QED
      BY <3>2, <3>3
  <2>3. ASSUME job[j].pc = "saved" \/ job[j].kept PROVE HasResult(j)'
    <3>1. job[j].at \in Procs /\ HasResult(j)
      BY <2>1, <2>3, Placed DEF JInv, Backing
    <3>. QED
      BY <2>2, <3>1 DEF HasResult
  <2>4. ASSUME job[j].pc \in {"listed", "end"} \/ msg[j].status \in Final \/ Coming(j) PROVE HasEntry(j)'
    <3>1. job[j].at \in Procs /\ HasEntry(j)
      BY <2>1, <2>4, Placed DEF JInv, Backing, Seen
    <3>2. CASE Cmds(job[j].at) \cap Adds(j) # {}
      BY <2>2, <3>1, <3>2 DEF HasEntry
    <3>3. CASE \E l \in Lists : Verdict(l) = job[j].verdict /\ zset[l][j] # 0
      BY <1>0, <3>3 DEF HasEntry
    <3>4. CASE Purgers # {} /\ job[j].since + MetaExpiry <= now
      BY <1>0, <3>4 DEF HasEntry
    <3>. QED
      BY <3>1, <3>2, <3>3, <3>4 DEF HasEntry
  <2>. QED
    BY <2>3, <2>4
<1>4. Deleted(j)'
  BY DEF JInv, Deleted
<1>5. NoRace(j)'
  <2> SUFFICES ASSUME j \notin raced PROVE NoRace(j)'
    BY DEF NoRace
  <2>1. \A q \in Procs \ {job[j].at} : Followed(pipe'[q], Results(j), Msgs(j))
    BY <1>q DEF JInv, NoRace
  <2>2. /\ \A q1, q2 \in Procs : q1 # q2 => Cmds(q1)' \cap Msgs(j) = {} \/ Cmds(q2)' \cap Msgs(j) = {}
        /\ \A q1, q2 \in Procs : q1 # q2 => Cmds(q1)' \cap Finals(j) = {} \/ Cmds(q2)' \cap Results(j) = {}
    <3>1. ASSUME NEW q1 \in Procs, NEW q2 \in Procs, q1 # q2
          PROVE  /\ Cmds(q1) \cap Msgs(j) = {} \/ Cmds(q2) \cap Msgs(j) = {}
                 /\ Cmds(q1) \cap Finals(j) = {} \/ Cmds(q2) \cap Results(j) = {}
                 /\ Cmds(q1)' \subseteq Cmds(q1) /\ Cmds(q2)' \subseteq Cmds(q2)
      BY <1>q, <3>1 DEF JInv, NoRace
    <3>. QED
      BY <3>1
  <2>3. Seen(j)' => \A q \in Procs : Cmds(q)' \cap Results(j) = {}
    BY <1>b, <1>q DEF JInv, NoRace
  <2>4. delete'[j] = "ok" /\ ~Overran(j)' => j \notin result'
    BY DEF JInv, NoRace
  <2>. QED
    BY <1>0, <2>1, <2>2, <2>3, <2>4 DEF NoRace
<1>6. Forward(j)'
  <2>1. JobRank(j) <= JobRank(j)'
    <3>1. RankOf(job[j]) \in Nat /\ RankOf(job[j]) <= 2 * Retries + 4
      BY <1>0, RankType
    <3>2. CASE job'[j] = job[j]
      BY <3>1, <3>2 DEF JobRank
    <3>3. CASE job'[j].pc = "stuck"
      <4>1. JobRank(j)' = 2 * Retries + 4
        BY <3>3 DEF JobRank, RankOf
      <4>. QED
        BY <3>1, <4>1 DEF JobRank
    <3>4. job'[j] = job[j] \/ job'[j].pc = "stuck"
      BY <1>0 DEF JobState
    <3>. QED
      BY <3>2, <3>3, <3>4
  <2>2. \A q \in Procs : /\ Cmds(q)' \cap Msgs(j) \subseteq Cmds(q)
                         /\ Ascending(pipe[q], j) => Ascending(pipe'[q], j)
    BY <1>q
  <2>. QED
    BY <2>1, <2>2, ForwardStays DEF JInv
<1>. QED
  BY <1>1, <1>2, <1>3, <1>4, <1>5, <1>6 DEF JInv

(***************************************************************************)
(* A job that was seen final is deleted, command by command (DeleteJob).   *)
(***************************************************************************)
LEMMA DeletionGoesOn ==
  ASSUME TInv, TInv', NEW j \in Jobs, JInv(j), Seen(j), delete'[j] # "none",
         UNCHANGED <<now, msg, piped, pipe, job, late, raced>>, faults <= faults',
         j \in result' => j \in result, \A l \in Lists : zset'[l][j] \in {zset[l][j], 0},
         Deleted(j)', j \notin raced /\ delete'[j] = "ok" => j \notin result'
  PROVE  JInv(j)'
<1>1. /\ \A p \in Procs : Cmds(p)' = Cmds(p) /\ pipe'[p] = pipe[p]
      /\ Cmds(job[j].at)' = Cmds(job[j].at)
      /\ Decided(j)' = Decided(j) /\ Seen(j)' /\ ~Good(j)'
  BY DEF Cmds, Decided, Seen, Good
<1>d. Decided(j)
  BY Placed DEF JInv
<1>2. ListedOnce(j)'
  <2>1. \A l \in Lists : zset'[l][j] \in (IF Verdict(l) = job[j].verdict THEN {0, job[j].since} ELSE {0})
    BY <1>d DEF JInv, ListedOnce
  <2>. QED
    BY <1>1, <1>d, <2>1 DEF JInv, ListedOnce
<1>3. InOrder(j)'
  BY <1>1 DEF JInv, InOrder
<1>4. Backing(j)'
  BY <1>1 DEF Backing
<1>5. NoRace(j)'
  BY <1>1 DEF JInv, NoRace
<1>6. Forward(j)'
  <2>1. JobRank(j)' = JobRank(j)
    BY DEF JobRank
  <2>. QED
    BY <1>1, <2>1 DEF JInv, Forward
<1>. QED
  BY <1>2, <1>3, <1>4, <1>5, <1>6 DEF JInv

-----------------------------------------------------------------------------
(* Each step preserves the invariant                                       *)

Shape(e) ==
  /\ e.pc \in {"new", "queued"} => e.at = None
  /\ e.pc \in {"running", "saved", "listed", "end"} => e.at \in Procs
  /\ e.pc \in {"new", "queued", "running", "saved"} => e.verdict \notin Final
  /\ e.pc \in {"listed", "end"} => e.verdict \in Final
  /\ e.kept => e.verdict = "successful"

LEMMA JobShape ==
  /\ TInv => \A j \in Jobs : job[j] \in JobState /\ Shape(job[j])
  /\ /\ TypeOK /\ pipe \in [Procs -> Seq(Command)] /\ \A j \in Jobs : Shape(job[j])
     => TInv
BY DEF TInv, TypeOK, JobState, Shape, Decided

(* A step of job j alone, and what it does to the handlers left behind.    *)
Moves(j) ==
  /\ job' \in [Jobs -> JobState] /\ \A k \in Jobs : Shape(job'[k])
  /\ \A k \in Jobs \ {j} : job'[k] = job[k]

Leaves(j) == late' = late \/ LeaveHandler(j)

LEMMA LeftBehind ==
  ASSUME TInv, NEW j \in Jobs, Leaves(j)
  PROVE  late' \subseteq Attempt /\ \A k \in Jobs : Overran(k) => Overran(k)'
<1>1. PICK e : e = [j |-> j, n |-> job[j].n, at |-> job[j].at]
  OBVIOUS
<1>2. e \in Attempt /\ late \subseteq Attempt
  BY <1>1, JobShape DEF TInv, TypeOK, JobState, Attempt
<1>3. late' = late \/ late' = late \cup {e}
  BY <1>1 DEF Leaves, LeaveHandler
<1>. QED
  BY <1>2, <1>3 DEF Overran

LEMMA Advances ==
  ASSUME TInv, NEW j \in Jobs, NEW r, NEW e \in JobState, Shape(e), Advance(j, r, e)
  PROVE  /\ Moves(j)
         /\ job'[j].pc = (IF r = "ok" THEN e.pc ELSE "stuck")
         /\ job'[j].at = e.at /\ job'[j].n = e.n /\ job'[j].since = e.since /\ job'[j].verdict = e.verdict
         /\ job'[j].kept = e.kept
<1>t. job \in [Jobs -> JobState] /\ \A k \in Jobs : Shape(job[k])
  BY JobShape DEF TInv, TypeOK, JobState
<1>1. PICK f : f = IF r = "ok" THEN e ELSE [e EXCEPT !.pc = "stuck"]
  OBVIOUS
<1>2. /\ f \in JobState /\ f.pc = (IF r = "ok" THEN e.pc ELSE "stuck")
      /\ f.at = e.at /\ f.n = e.n /\ f.since = e.since /\ f.verdict = e.verdict /\ f.kept = e.kept
  BY <1>1 DEF JobState
<1>3. Shape(f)
  BY <1>2 DEF Shape
<1>4. job' = [job EXCEPT ![j] = f]
  BY <1>1 DEF Advance
<1>5. job'[j] = f /\ job' \in [Jobs -> JobState] /\ \A k \in Jobs \ {j} : job'[k] = job[k]
  BY <1>t, <1>2, <1>4
<1>. QED
  BY <1>t, <1>2, <1>3, <1>5 DEF Moves

(* What is due in a pipe stays due, and a process adds only what is.       *)
LEMMA BesidesStay ==
  ASSUME TInv, TInv', Besides, now <= now', \A k \in Jobs : Overran(k) => Overran(k)',
         \A q \in Procs : \A c \in Cmds(q)' : c \in Cmds(q) \/ (c \in Command /\ Due(c)),
         \A q \in Procs : purge'[q].to # 0 => q \in Purgers /\ purge'[q].to + MetaExpiry <= now
  PROVE  Besides'
<1>t. /\ now \in Nat /\ now' \in Nat /\ MetaExpiry \in Nat /\ pipe \in [Procs -> Seq(Command)]
      /\ \A q \in Procs : purge'[q].to \in Nat
  BY StoreAssumption DEF TInv, TypeOK
<1>1. ASSUME NEW q \in Procs, NEW c \in Cmds(q)' PROVE c \in Command /\ Due(c)
  <2>1. CASE c \in Cmds(q)
    <3>1. PICK i \in DOMAIN pipe[q] : pipe[q][i] = c
      BY <2>1, ToSetHas DEF Cmds
    <3>. QED
      BY <1>t, <2>1, <3>1 DEF Besides
  <2>. QED
    BY <1>1, <2>1
<1>2. ASSUME NEW c \in Command, Due(c) PROVE Due(c)'
  <2>1. c.op = "purge" => Purgers # {} /\ c.score + MetaExpiry <= now'
    BY <1>t, <1>2, Kinds DEF Due, Command
  <2>2. c.op = "late" => Overran(c.j)'
    <3>1. c.op = "late" => c.j \in Jobs
      BY DEF Command
    <3>. QED
      BY <1>2, <3>1 DEF Due
  <2>. QED
    BY <2>1, <2>2 DEF Due
<1>3. \A q \in Procs : purge'[q].to # 0 => q \in Purgers /\ purge'[q].to + MetaExpiry <= now'
  BY <1>t
<1>. QED
  BY <1>1, <1>2, <1>3 DEF Besides

(* A write of job j keeps types and what the invariant says of other jobs. *)
LEMMA Writing ==
  ASSUME IInv, NEW j \in Jobs, NEW p \in Procs, NEW c \in Own(j), NEW r \in Replies, Write(p, c, r),
         Moves(j), Leaves(j),
         UNCHANGED <<now, piped, purge, delete>>, raced' \in {raced, raced \cup {j}}
  PROVE  TInv' /\ Besides' /\ \A k \in Jobs \ {j} : JInv(k)'
<1>c. TInv /\ Besides /\ c \in Command /\ c.op \notin {"purge", "late"}
  BY Kinds DEF IInv
<1>l. late' \subseteq Attempt /\ \A k \in Jobs : Overran(k) => Overran(k)'
  BY <1>c, LeftBehind
<1>j. job' \in [Jobs -> JobState] /\ (\A k \in Jobs : Shape(job'[k]))
      /\ (\A k \in Jobs \ {j} : job'[k] = job[k])
  BY DEF Moves
<1>w. /\ StoreTypes /\ PipeTypes /\ faults' \in 0 .. MaxFaults /\ faults <= faults'
      /\ Buffers(p, c) \/ Executed(p, c) \/ Refused(p)
  BY <1>c, Writes
<1>1. TypeOK'
  BY <1>c, <1>l, <1>j, <1>w DEF TInv, TypeOK, StoreTypes, PipeTypes, JobState
<1>2. TInv'
  BY <1>1, <1>j, <1>w DEF TInv, PipeTypes, Shape, Decided
<1>3. Besides'
  <2>1. \A q \in Procs : Cmds(q)' \subseteq Cmds(q) \cup {c}
    <3>1. CASE Buffers(p, c)
      BY <1>c, <3>1, PipeGrows DEF Buffers
    <3>2. CASE UNCHANGED pipe
      BY <3>2 DEF Cmds
    <3>. QED
      BY <1>w, <3>1, <3>2 DEF Executed, Refused
  <2>2. Due(c) /\ now <= now'
    BY <1>c DEF Due, TInv, TypeOK
  <2>3. \A q \in Procs : purge'[q].to # 0 => q \in Purgers /\ purge'[q].to + MetaExpiry <= now
    BY <1>c DEF Besides
  <2>. QED
    BY <1>c, <1>l, <1>2, <2>1, <2>2, <2>3, BesidesStay
<1>4. ASSUME NEW k \in Jobs, k # j PROVE JInv(k)'
  <2>1. c \notin Own(k)
    BY <1>4, Kinds
  <2>2. SameJob(k) /\ now' \in Nat /\ Due(c)
    BY <1>c, <1>l, <1>j, <1>w, <1>4 DEF SameJob, Due, TInv, TypeOK
  <2>. QED
    BY <1>c, <2>1, <2>2, Elsewhere DEF IInv
<1>. QED
  BY <1>2, <1>3, <1>4

(***************************************************************************)
(* The statuses before the final one (statusStarted, statusProcessing,     *)
(* statusRetrying).                                                        *)
(***************************************************************************)
LEMMA UnfinishedStep ==
  ASSUME IInv, NEW j \in Jobs, NEW p \in Procs, NEW r \in Replies,
         Started(p, j, r) \/ Processing(p, j, r) \/ (Retrying(j, r) /\ p = job[j].at)
  PROVE  IInv'
<1>t. TInv /\ JInv(j) /\ job[j] \in JobState /\ Shape(job[j]) /\ None \notin Procs /\ Retries \in Nat
  BY JobShape, StoreAssumption DEF IInv
<1>f. job[j].n \in Nat /\ job[j].n <= Retries /\ job[j].since \in 0 .. Horizon
      /\ job[j].at \in Procs \cup {None} /\ job[j].verdict \in Status
  BY <1>t DEF JobState
<1>l. Leaves(j)
  BY DEF Started, Processing, Retrying, Leaves
<1>1. \E s \in {"queued", "processing", "retrying"}, n \in 0 .. Retries, e \in JobState :
        /\ SetStatus(p, j, s, n, r) /\ Advance(j, r, e) /\ Shape(e) /\ ~Decided(j)
        /\ e.pc \in {"queued", "running"} /\ e.verdict = job[j].verdict /\ job[j].at \in {None, p}
        /\ s = "queued" => JobRank(j) = 0 /\ RankOf(e) >= 1
        /\ s = "processing" => JobRank(j) = 2 * n + 1 /\ RankOf(e) = 2 * n + 2
        /\ s = "retrying" => JobRank(j) = 2 * n /\ RankOf(e) = 2 * n + 1
  <2>1. CASE Started(p, j, r)
    <3>1. PICK e : e = [job[j] EXCEPT !.pc = "queued"]
      OBVIOUS
    <3>2. e \in JobState /\ e.pc = "queued" /\ e.at = job[j].at /\ e.n = job[j].n /\ e.verdict = job[j].verdict
          /\ e.kept = job[j].kept
      BY <1>t, <3>1 DEF JobState
    <3>3. job[j].pc = "new" /\ SetStatus(p, j, "queued", 0, r) /\ Advance(j, r, e)
      BY <2>1, <3>1 DEF Started
    <3>4. RankOf(e) = 2 * job[j].n + 1
      BY <3>2 DEF RankOf
    <3>5. Shape(e) /\ ~Decided(j) /\ job[j].at = None /\ JobRank(j) = 0 /\ RankOf(e) >= 1
      BY <1>t, <1>f, <3>2, <3>3, <3>4 DEF Shape, Decided, JobRank, RankOf
    <3>. QED
      BY <1>t, <3>2, <3>3, <3>5
  <2>2. CASE Processing(p, j, r)
    <3>1. PICK e : e = [job[j] EXCEPT !.pc = "running", !.at = p]
      OBVIOUS
    <3>2. e \in JobState /\ e.pc = "running" /\ e.at = p /\ e.n = job[j].n /\ e.verdict = job[j].verdict
          /\ e.kept = job[j].kept
      BY <1>t, <3>1 DEF JobState
    <3>3. job[j].pc = "queued" /\ SetStatus(p, j, "processing", job[j].n, r) /\ Advance(j, r, e)
      BY <2>2, <3>1 DEF Processing
    <3>5. Shape(e) /\ ~Decided(j) /\ job[j].at = None
          /\ JobRank(j) = 2 * job[j].n + 1 /\ RankOf(e) = 2 * job[j].n + 2
      BY <1>t, <3>2, <3>3 DEF Shape, Decided, JobRank, RankOf
    <3>6. job[j].n \in 0 .. Retries
      BY <1>f
    <3>. QED
      BY <3>2, <3>3, <3>5, <3>6
  <2>3. CASE Retrying(j, r) /\ p = job[j].at
    <3>1. PICK e : e = [job[j] EXCEPT !.pc = "queued", !.at = None, !.n = job[j].n + 1]
      OBVIOUS
    <3>3. /\ job[j].pc \in {"running", "saved"} /\ job[j].n < Retries
          /\ SetStatus(p, j, "retrying", job[j].n + 1, r) /\ Advance(j, r, e)
      BY <2>3, <3>1 DEF Retrying, Answered
    <3>4. job[j].n + 1 \in 0 .. Retries
      BY <1>f, <1>t, <3>3
    <3>2. e \in JobState /\ e.pc = "queued" /\ e.at = None /\ e.n = job[j].n + 1 /\ e.verdict = job[j].verdict
          /\ e.kept = job[j].kept
      BY <1>t, <3>1, <3>4 DEF JobState
    <3>5. Shape(e) /\ ~Decided(j)
          /\ JobRank(j) = 2 * job[j].n + 2 /\ RankOf(e) = 2 * (job[j].n + 1) + 1
      BY <1>t, <3>2, <3>3 DEF Shape, Decided, JobRank, RankOf
    <3>6. JobRank(j) = 2 * (job[j].n + 1)
      BY <1>f, <3>5
    <3>. QED
      BY <2>3, <3>2, <3>3, <3>4, <3>5, <3>6
  <2>. QED
    BY <2>1, <2>2, <2>3
<1>2. PICK s \in {"queued", "processing", "retrying"}, n \in 0 .. Retries, e \in JobState :
        /\ SetStatus(p, j, s, n, r) /\ Advance(j, r, e) /\ Shape(e) /\ ~Decided(j)
        /\ e.pc \in {"queued", "running"} /\ e.verdict = job[j].verdict /\ job[j].at \in {None, p}
        /\ s = "queued" => JobRank(j) = 0 /\ RankOf(e) >= 1
        /\ s = "processing" => JobRank(j) = 2 * n + 1 /\ RankOf(e) = 2 * n + 2
        /\ s = "retrying" => JobRank(j) = 2 * n /\ RankOf(e) = 2 * n + 1
  BY <1>1
<1>3. PICK m : m = [status |-> s, n |-> n, since |-> job[j].since]
  OBVIOUS
<1>4. m \in Msg /\ m.status = s /\ m.n = n /\ m.status \notin Final
  BY <1>f, <1>3 DEF Msg, Status, Final
<1>5. SetMsg(j, m) \in Own(j)
  BY <1>t, <1>4, Written DEF Own
<1>6. /\ Write(p, SetMsg(j, m), r) /\ Races(p, j) /\ UNCHANGED <<now, piped, purge, delete>>
      /\ raced' \in {raced, raced \cup {j}}
  BY <1>2, <1>3 DEF SetStatus, Races
<1>7. TInv' /\ Besides' /\ \A k \in Jobs \ {j} : JInv(k)'
  <2>1. Moves(j)
    BY <1>t, <1>2, Advances
  <2>. QED
    BY <1>l, <1>5, <1>6, <2>1, Writing
<1>8. /\ job'[j] \in JobState /\ job'[j].verdict = e.verdict
      /\ job'[j].pc = (IF r = "ok" THEN e.pc ELSE "stuck") /\ job'[j].n = e.n
  BY <1>t, <1>2, Advances DEF Moves
<1>9. JobRank(j) < Rank(m) /\ Rank(m) <= JobRank(j)'
  <2>1. JobRank(j)' = RankOf(e) \/ JobRank(j)' = 2 * Retries + 4
    BY <1>2, <1>8 DEF JobRank, RankOf
  <2>2. /\ Rank(m) \in Nat /\ Rank(m) <= 2 * Retries + 3 /\ RankOf(e) \in Nat
        /\ s = "queued" => Rank(m) = 1
        /\ s = "retrying" => Rank(m) = 2 * n + 1
        /\ s = "processing" => Rank(m) = 2 * n + 2
    BY <1>4, RankType
  <2>. QED
    BY <1>2, <1>t, <2>1, <2>2
<1>10. JInv(j)'
  <2>1. delete'[j] = delete[j] /\ ~Decided(j)' /\ job'[j].pc # "saved"
    BY <1>2, <1>6, <1>8 DEF Decided
  <2>. QED
    BY <1>t, <1>2, <1>4, <1>6, <1>7, <1>9, <2>1, UnfinishedWritten
<1>. QED
  BY <1>7, <1>10 DEF IInv

(***************************************************************************)
(* The handler saves a result (CallbackSave).                              *)
(***************************************************************************)
LEMMA SaveStep == ASSUME IInv, NEW j \in Jobs, NEW r \in Replies, Save(j, r) PROVE IInv'
<1>t. TInv /\ JInv(j) /\ job \in [Jobs -> JobState] /\ \A k \in Jobs : Shape(job[k])
  BY JobShape DEF IInv, TInv, TypeOK, JobState
<1>1. PICK e : e = IF r = "ok" THEN [job[j] EXCEPT !.pc = "saved"] ELSE job[j]
  OBVIOUS
<1>3. /\ job[j].pc = "running" /\ Write(job[j].at, SetResult(j), r) /\ job' = [job EXCEPT ![j] = e]
      /\ UNCHANGED <<now, piped, late, purge, delete, raced>>
  BY <1>t, <1>1 DEF Save
<1>2. /\ e \in JobState /\ e.pc = (IF r = "ok" THEN "saved" ELSE "running")
      /\ e.at = job[j].at /\ e.n = job[j].n /\ e.verdict = job[j].verdict /\ e.kept = job[j].kept
  BY <1>t, <1>1, <1>3 DEF JobState
<1>4. Shape(e) /\ job[j].at \in Procs
  BY <1>t, <1>2, <1>3 DEF Shape
<1>6. Moves(j) /\ Leaves(j) /\ job'[j] = e
  BY <1>t, <1>2, <1>3, <1>4 DEF Moves, Leaves
<1>5. TInv' /\ Besides' /\ \A k \in Jobs \ {j} : JInv(k)'
  <2>1. SetResult(j) \in Own(j)
    BY <1>t, Written DEF Own
  <2>. QED
    BY <1>3, <1>4, <1>6, <2>1, Writing
<1>7. JInv(j)'
  BY <1>t, <1>2, <1>3, <1>5, <1>6, ResultWritten
<1>. QED
  BY <1>5, <1>7 DEF IInv

(***************************************************************************)
(* The job is listed as successful or as failed (SetSuccess, SetFailed).   *)
(***************************************************************************)
LEMMA ListStep ==
  ASSUME IInv, NEW j \in Jobs, NEW r \in Replies, SetSuccess(j, r) \/ SetFailed(j, r)
  PROVE  IInv'
<1>t. TInv /\ JInv(j) /\ job[j] \in JobState /\ Shape(job[j]) /\ now \in 0 .. Horizon
  BY JobShape, StoreAssumption DEF IInv, TInv, TypeOK
<1>0. PICK l \in Lists : List(j, l, r) /\ (l = "success" /\ job[j].chained => j \in result)
  BY DEF SetSuccess, SetFailed, Lists
<1>a. job[j].pc \in {"running", "saved"} /\ Leaves(j)
  BY DEF SetSuccess, SetFailed, Answered, Leaves
<1> DEFINE e == [job[j] EXCEPT !.pc = "listed", !.since = now, !.verdict = Verdict(l), !.kept = Kept(j, l)]
<1>2. /\ e \in JobState /\ e.pc = "listed" /\ e.at = job[j].at /\ e.n = job[j].n
      /\ e.since = now /\ e.verdict = Verdict(l) /\ Verdict(l) \in Final
      /\ e.kept => Kept(j, l) /\ e.verdict = "successful"
  <2>1. Verdict(l) \in Status /\ Verdict(l) \in Final /\ Kept(j, l) \in BOOLEAN
        /\ (Kept(j, l) => Verdict(l) = "successful")
    BY DEF Kept, Verdict, Status, Final
  <2>. QED
    BY <1>t, <2>1 DEF JobState
<1>3. /\ Write(job[j].at, ZAdd(l, j), r) /\ Advance(j, r, e)
      /\ UNCHANGED <<now, piped, purge, delete, raced>>
  BY <1>0 DEF List
<1> HIDE DEF e
<1>4. Shape(e) /\ job[j].at \in Procs
  BY <1>t, <1>a, <1>2 DEF Shape
<1>5. TInv' /\ Besides' /\ \A k \in Jobs \ {j} : JInv(k)'
  <2>1. ZAdd(l, j) \in Own(j)
    BY <1>t, Written DEF Own
  <2>2. Moves(j) /\ Leaves(j)
    BY <1>t, <1>a, <1>2, <1>3, <1>4, Advances
  <2>. QED
    BY <1>3, <1>4, <2>1, <2>2, Writing
<1>6. /\ job'[j].pc = (IF r = "ok" THEN "listed" ELSE "stuck") /\ job'[j].at = job[j].at
      /\ job'[j].n = job[j].n /\ job'[j].since = now /\ job'[j].verdict = Verdict(l)
      /\ job'[j].kept => Kept(j, l)
  BY <1>t, <1>2, <1>3, <1>4, Advances
<1>7. JInv(j)'
  BY <1>t, <1>a, <1>0, <1>3, <1>5, <1>6, ListWritten
<1>. QED
  BY <1>5, <1>7 DEF IInv

(***************************************************************************)
(* The final status is written (statusDone, statusFailed).                 *)
(***************************************************************************)
LEMMA FinalStep == ASSUME IInv, NEW j \in Jobs, NEW r \in Replies, SetFinal(j, r) PROVE IInv'
<1>t. TInv /\ JInv(j) /\ job[j] \in JobState /\ Shape(job[j])
  BY JobShape DEF IInv
<1>1. PICK e, m : /\ e = [job[j] EXCEPT !.pc = "end"]
                  /\ m = [status |-> job[j].verdict, n |-> job[j].n, since |-> job[j].since]
  OBVIOUS
<1>2. /\ e \in JobState /\ e.pc = "end" /\ e.at = job[j].at /\ e.n = job[j].n
      /\ e.since = job[j].since /\ e.verdict = job[j].verdict /\ e.kept = job[j].kept
  BY <1>t, <1>1 DEF JobState
<1>3. /\ job[j].pc = "listed" /\ Write(job[j].at, SetMsg(j, m), r) /\ Advance(j, r, e) /\ Races(job[j].at, j)
      /\ UNCHANGED <<now, piped, late, purge, delete>> /\ raced' \in {raced, raced \cup {j}}
  BY <1>1 DEF SetFinal, SetStatus, Races
<1>4. Shape(e) /\ job[j].at \in Procs
  BY <1>t, <1>2, <1>3 DEF Shape
<1>m. m \in Msg /\ m.status = job[j].verdict /\ m.since = job[j].since
  <2>1. job[j].verdict \in Status /\ job[j].n \in 0 .. Retries /\ job[j].since \in 0 .. Horizon
    BY <1>t DEF JobState
  <2>. QED
    BY <1>1, <2>1 DEF Msg
<1>5. TInv' /\ Besides' /\ \A k \in Jobs \ {j} : JInv(k)'
  <2>1. SetMsg(j, m) \in Own(j)
    BY <1>t, <1>m, Written DEF Own
  <2>2. Moves(j) /\ Leaves(j)
    BY <1>t, <1>2, <1>3, <1>4, Advances DEF Leaves
  <2>. QED
    BY <1>3, <1>4, <2>1, <2>2, Writing
<1>6. /\ job'[j].pc \in {"end", "stuck"} /\ job'[j].at = job[j].at
      /\ job'[j].since = job[j].since /\ job'[j].verdict = job[j].verdict /\ job'[j].kept = job[j].kept
  BY <1>t, <1>2, <1>3, <1>4, Advances
<1>7. JInv(j)'
  BY <1>t, <1>m, <1>3, <1>5, <1>6, FinalWritten
<1>. QED
  BY <1>5, <1>7 DEF IInv

(* Types survive a step that leaves jobs, pipes and the store alone.       *)
LEMMA Untouched ==
  ASSUME TInv, NEW j \in Jobs,
         UNCHANGED <<now, piped, pipe, job, late, raced, purge>>, faults' \in 0 .. MaxFaults, StoreTypes,
         delete' \in [Jobs -> Lists \cup {"none", "result", "ok", "error"}]
  PROVE  TInv'
<1>1. TypeOK'
  BY DEF TInv, TypeOK, StoreTypes
<1>. QED
  BY <1>1 DEF TInv, Decided

(***************************************************************************)
(* A worker finds no result of a job with a continuation.                  *)
(***************************************************************************)
LEMMA NoResultStep == ASSUME IInv, NEW j \in Jobs, NoResult(j) PROVE IInv'
<1>t. TInv /\ Besides /\ job[j] \in JobState /\ Shape(job[j])
  BY JobShape DEF IInv
<1>1. /\ Advance(j, "error", job[j]) /\ Leaves(j)
      /\ UNCHANGED <<now, msg, result, zset, piped, pipe, purge, delete, raced>>
  BY DEF NoResult, store, Leaves
<1>f. faults \in 0 .. MaxFaults /\ faults' \in 0 .. MaxFaults /\ faults <= faults'
  BY <1>t, StoreAssumption DEF NoResult, Fault, TInv, TypeOK
<1>l. late' \subseteq Attempt /\ \A k \in Jobs : Overran(k) => Overran(k)'
  BY <1>t, <1>1, LeftBehind
<1>2. /\ job' \in [Jobs -> JobState] /\ \A k \in Jobs : Shape(job'[k])
      /\ \A k \in Jobs \ {j} : job'[k] = job[k]
  BY <1>t, <1>1, Advances DEF Moves
<1>3. job'[j] = [job[j] EXCEPT !.pc = "stuck"]
  BY <1>t, <1>1 DEF Advance, TInv, TypeOK
<1>4. TInv'
  <2>1. TypeOK'
    BY <1>t, <1>f, <1>l, <1>1, <1>2 DEF TInv, TypeOK, JobState
  <2>. QED
    BY <1>t, <1>1, <1>2, <2>1 DEF TInv, Shape, Decided
<1>5. Besides'
  <2>1. now <= now' /\ \A q \in Procs : Cmds(q)' = Cmds(q)
    BY <1>t, <1>1 DEF Cmds, TInv, TypeOK
  <2>2. \A q \in Procs : purge'[q].to # 0 => q \in Purgers /\ purge'[q].to + MetaExpiry <= now
    BY <1>t, <1>1 DEF Besides
  <2>. QED
    BY <1>t, <1>l, <1>4, <2>1, <2>2, BesidesStay
<1>6. ASSUME NEW k \in Jobs PROVE JInv(k)'
  <2>1. JInv(k) /\ (job'[k] = job[k] \/ job'[k] = [job[k] EXCEPT !.pc = "stuck"])
    BY <1>2, <1>3 DEF IInv
  <2>. QED
    BY <1>t, <1>f, <1>l, <1>1, <1>4, <2>1, SomethingLost
<1>. QED
  BY <1>4, <1>5, <1>6 DEF IInv

(***************************************************************************)
(* Deleting a job (DeleteJob of the server).                               *)
(***************************************************************************)
LEMMA DeleteStep ==
  ASSUME IInv, NEW j \in Jobs, AskDelete(j) \/ DeleteJob(j) \/ DeleteFails(j)
  PROVE  IInv'
<1>t. /\ TInv /\ Besides /\ JInv(j) /\ now \in Nat /\ faults \in Nat
      /\ delete \in [Jobs -> Lists \cup {"none", "result", "ok", "error"}]
      /\ zset \in [Lists -> [Jobs -> 0 .. Horizon]] /\ result \subseteq Jobs /\ msg \in [Jobs -> Msg]
  BY DEF IInv, TInv, TypeOK
<1>u. UNCHANGED <<now, msg, piped, pipe, job, late, raced, purge>>
  BY DEF AskDelete, DeleteJob, DeleteFails, store
<1>f. faults' \in 0 .. MaxFaults /\ faults <= faults'
  BY StoreAssumption DEF AskDelete, DeleteJob, DeleteFails, Fault, IInv, TInv, TypeOK
<1>1. /\ delete'[j] # "none" /\ Seen(j) /\ Deleted(j)'
      /\ delete' \in [Jobs -> Lists \cup {"none", "result", "ok", "error"}]
      /\ \A k \in Jobs \ {j} : delete'[k] = delete[k]
      /\ j \notin raced /\ delete'[j] = "ok" => j \notin result'
      /\ StoreTypes
      /\ \A k \in Jobs \ {j} : k \in result' <=> k \in result
      /\ \A k \in Jobs \ {j} : \A l \in Lists : zset'[l][k] = zset[l][k]
      /\ j \in result' => j \in result
      /\ \A l \in Lists : zset'[l][j] \in {zset[l][j], 0}
  <2>1. CASE AskDelete(j)
    <3>1. /\ delete[j] = "none" /\ msg[j].status \in Final /\ delete' = [delete EXCEPT ![j] = "success"]
          /\ UNCHANGED <<msg, result, zset>>
      BY <2>1 DEF AskDelete, store
    <3>. QED
      BY <1>t, <3>1 DEF Seen, Deleted, Lists, StoreTypes
  <2>2. CASE DeleteFails(j)
    <3>1. /\ delete[j] \in Lists \cup {"result"} /\ delete' = [delete EXCEPT ![j] = "error"]
          /\ UNCHANGED <<msg, result, zset>>
      BY <2>2 DEF DeleteFails, store
    <3>. QED
      BY <1>t, <3>1 DEF Seen, Deleted, Lists, StoreTypes
  <2>3. CASE DeleteJob(j) /\ delete[j] = "result"
    <3>1. result' = result \ {j} /\ UNCHANGED zset /\ delete' = [delete EXCEPT ![j] = "ok"]
      BY <1>t, <2>3 DEF DeleteJob, NextKey
    <3>. QED
      BY <1>t, <1>u, <2>3, <3>1 DEF Seen, Deleted, Lists, StoreTypes, JInv
  <2>4. CASE DeleteJob(j) /\ delete[j] # "result"
    <3>1. delete[j] \in Lists /\ zset' = [zset EXCEPT ![delete[j]][j] = 0] /\ UNCHANGED result
          /\ delete' = [delete EXCEPT ![j] = IF delete[j] = "success" THEN "failed" ELSE "result"]
      BY <1>t, <2>4 DEF DeleteJob, NextKey, Lists
    <3>2. PICK z : z = [zset[delete[j]] EXCEPT ![j] = 0]
      OBVIOUS
    <3>3. z \in [Jobs -> 0 .. Horizon] /\ zset' = [zset EXCEPT ![delete[j]] = z]
      BY <1>t, <3>1, <3>2, StoreAssumption
    <3>4. /\ zset' \in [Lists -> [Jobs -> 0 .. Horizon]]
          /\ \A l \in Lists, k \in Jobs : zset'[l][k] = IF l = delete[j] /\ k = j THEN 0 ELSE zset[l][k]
      BY <1>t, <3>1, <3>2, <3>3
    <3>5. Deleted(j)' /\ delete'[j] \in {"failed", "result"}
      BY <1>t, <3>1, <3>4 DEF Deleted, Lists, JInv
    <3>6. delete' \in [Jobs -> Lists \cup {"none", "result", "ok", "error"}]
          /\ \A k \in Jobs \ {j} : delete'[k] = delete[k]
      BY <1>t, <3>1 DEF Lists
    <3>. QED
      BY <1>t, <1>u, <3>1, <3>4, <3>5, <3>6 DEF Seen, StoreTypes, Lists
  <2>. QED
    BY <2>1, <2>2, <2>3, <2>4
<1>2. TInv'
  BY <1>t, <1>u, <1>f, <1>1, Untouched
<1>3. Besides'
  BY <1>t, <1>u DEF Besides, Due, Overran, Cmds
<1>4. JInv(j)'
  BY <1>t, <1>u, <1>f, <1>1, <1>2, DeletionGoesOn
<1>5. ASSUME NEW k \in Jobs \ {j} PROVE JInv(k)'
  <2>1. SamePipes(k)
    BY <1>t, <1>u, PipesSame
  <2>2. SameJob(k) /\ SameStore(k)
    BY <1>t, <1>u, <1>f, <1>1 DEF SameJob, SameStore, Overran
  <2>. QED
    BY <1>t, <1>u, <2>1, <2>2, Frame DEF IInv
<1>. QED
  BY <1>2, <1>3, <1>4, <1>5 DEF IInv

(***************************************************************************)
(* Old list entries are purged (expireMeta).                               *)
(***************************************************************************)
LEMMA PurgeStep ==
  ASSUME IInv, NEW p \in Procs, NEW r \in Replies, PurgeFailed(p, r) \/ PurgeSuccess(p, r)
  PROVE  IInv'
<1>t. /\ TInv /\ Besides /\ now \in 1 .. Horizon /\ MetaExpiry \in Nat \ {0} /\ faults \in Nat
      /\ purge \in [Procs -> [last : 0 .. Horizon, to : 0 .. Horizon]]
  BY StoreAssumption DEF IInv, TInv, TypeOK
<1>u. UNCHANGED <<now, piped, job, late, delete, raced>>
  BY DEF PurgeFailed, PurgeSuccess
<1>1. \E l \in Lists, to \in 0 .. Horizon :
        Write(p, ZRemRange(l, to), r) /\ Purgers # {} /\ to + MetaExpiry <= now
  <2>1. CASE PurgeFailed(p, r)
    <3>1. p \in Purgers /\ now > MetaExpiry /\ Write(p, ZRemRange("failed", Cutoff), r)
      BY <2>1 DEF PurgeFailed
    <3>2. Cutoff \in 0 .. Horizon /\ Cutoff + MetaExpiry <= now
      BY <1>t, <3>1, StoreAssumption DEF Cutoff
    <3>. QED
      BY <3>1, <3>2 DEF Lists
  <2>2. CASE PurgeSuccess(p, r)
    <3>1. purge[p].to # 0 /\ Write(p, ZRemRange("success", purge[p].to), r)
      BY <2>2 DEF PurgeSuccess
    <3>2. purge[p].to \in 0 .. Horizon /\ Purgers # {} /\ purge[p].to + MetaExpiry <= now
      BY <1>t, <3>1 DEF Besides
    <3>. QED
      BY <3>1, <3>2 DEF Lists
  <2>. QED
    BY <2>1, <2>2
<1>2. PICK l \in Lists, to \in 0 .. Horizon :
        Write(p, ZRemRange(l, to), r) /\ Purgers # {} /\ to + MetaExpiry <= now
  BY <1>1
<1>3. PICK c \in Command : /\ c = ZRemRange(l, to) /\ Write(p, c, r) /\ Due(c)
                           /\ \A j \in Jobs : c \notin Own(j)
  <2>1. PICK c : c = ZRemRange(l, to)
    OBVIOUS
  <2>2. c \in Command /\ c.op = "purge" /\ c.score = to
    BY <2>1, StoreAssumption DEF ZRemRange, Command
  <2>3. \A j \in Jobs : c \notin Own(j)
    BY <1>t, <2>1, Written
  <2>4. Due(c)
    BY <1>2, <2>2 DEF Due
  <2>. QED
    BY <1>2, <2>1, <2>2, <2>3, <2>4
<1>w. /\ StoreTypes /\ PipeTypes /\ faults' \in 0 .. MaxFaults /\ faults <= faults'
      /\ Buffers(p, c) \/ Executed(p, c) \/ Refused(p)
  BY <1>t, <1>3, Writes
<1>4. /\ purge' \in [Procs -> [last : 0 .. Horizon, to : 0 .. Horizon]]
      /\ \A q \in Procs : purge'[q].to # 0 => q \in Purgers /\ purge'[q].to + MetaExpiry <= now
  <2>1. CASE PurgeFailed(p, r)
    <3>1. p \in Purgers /\ now > MetaExpiry
      BY <2>1 DEF PurgeFailed
    <3>2. PICK e : e = [last |-> now, to |-> Cutoff]
      OBVIOUS
    <3>3. e.to = Cutoff /\ purge' = [purge EXCEPT ![p] = e]
      BY <2>1, <3>2 DEF PurgeFailed
    <3>4. Cutoff \in 0 .. Horizon /\ Cutoff + MetaExpiry <= now
      BY <1>t, <3>1, StoreAssumption DEF Cutoff
    <3>5. e \in [last : 0 .. Horizon, to : 0 .. Horizon]
      BY <1>t, <3>2, <3>4, StoreAssumption
    <3>. QED
      BY <1>t, <3>1, <3>3, <3>4, <3>5 DEF Besides
  <2>2. CASE PurgeSuccess(p, r)
    <3>1. purge' = [purge EXCEPT ![p].to = 0]
      BY <2>2 DEF PurgeSuccess
    <3>2. PICK e : e = [purge[p] EXCEPT !.to = 0]
      OBVIOUS
    <3>3. e \in [last : 0 .. Horizon, to : 0 .. Horizon] /\ e.to = 0 /\ purge' = [purge EXCEPT ![p] = e]
      BY <1>t, <3>1, <3>2, StoreAssumption
    <3>. QED
      BY <1>t, <3>3 DEF Besides
  <2>. QED
    BY <2>1, <2>2
<1>5. TInv'
  <2>1. TypeOK'
    BY <1>t, <1>u, <1>w, <1>4 DEF TInv, TypeOK, StoreTypes, PipeTypes
  <2>. QED
    BY <1>t, <1>u, <1>w, <2>1 DEF TInv, PipeTypes, Decided
<1>6. Besides'
  <2>1. \A q \in Procs : Cmds(q)' \subseteq Cmds(q) \cup {c}
    <3>1. CASE Buffers(p, c)
      <4>1. \A s \in Seq(Command) : ToSet(Append(s, c)) = ToSet(s) \cup {c}
        BY Appended
      <4>2. pipe \in [Procs -> Seq(Command)] /\ pipe' = [pipe EXCEPT ![p] = Append(@, c)]
        BY <1>t, <3>1 DEF TInv, Buffers, Buffer
      <4>. QED
        BY <4>1, <4>2 DEF Cmds
    <3>2. CASE UNCHANGED pipe
      BY <3>2 DEF Cmds
    <3>. QED
      BY <1>w, <3>1, <3>2 DEF Executed, Refused
  <2>. QED
    BY <1>t, <1>u, <1>3, <1>4, <1>5, <2>1, BesidesStay DEF Overran
<1>7. ASSUME NEW j \in Jobs PROVE JInv(j)'
  <2>1. SameJob(j) /\ now' \in Nat
    BY <1>t, <1>u, <1>w DEF SameJob, Overran
  <2>. QED
    BY <1>t, <1>3, <2>1, Elsewhere DEF IInv
<1>. QED
  BY <1>5, <1>6, <1>7 DEF IInv

(***************************************************************************)
(* The first command of a pipe is executed (execPipe).                     *)
(***************************************************************************)
LEMMA SendStep == ASSUME IInv, NEW p \in Procs, Send(p) PROVE IInv'
<1>t. /\ TInv /\ Besides /\ now \in Nat /\ faults \in Nat /\ pipe \in [Procs -> Seq(Command)]
      /\ \A q \in Procs : pipe[q] # <<>> => q \in piped
  BY DEF IInv, TInv, TypeOK
<1>1. /\ pipe[p] # <<>> /\ Execute(Head(pipe[p])) /\ pipe' = [pipe EXCEPT ![p] = Tail(@)]
      /\ UNCHANGED <<now, piped, job, late, purge, delete, raced, faults>>
  BY DEF Send
<1>2. PICK h : h = Head(pipe[p])
  OBVIOUS
<1>3. /\ h \in Command /\ Cmds(p) = Cmds(p)' \cup {h}
      /\ \A q \in Procs \ {p} : Cmds(q)' = Cmds(q)
  <2>1. PICK s, t : s = pipe[p] /\ t = Tail(s)
    OBVIOUS
  <2>2. s \in Seq(Command) /\ s # <<>> /\ h = Head(s) /\ pipe' = [pipe EXCEPT ![p] = t]
    BY <1>t, <1>1, <1>2, <2>1
  <2>3. h \in Command /\ ToSet(s) = ToSet(t) \cup {h}
    BY <2>1, <2>2, TakenOff
  <2>. QED
    BY <1>t, <2>1, <2>2, <2>3 DEF Cmds
<1>4. StoreTypes /\ \A j \in Jobs : Effect(h, j)
  BY <1>t, <1>1, <1>2, <1>3, Executes
<1>5. PipeTypes
  <2>1. Tail(pipe[p]) \in Seq(Command)
    BY <1>t, <1>1
  <2>. QED
    BY <1>t, <1>1, <2>1 DEF PipeTypes
<1>6. TInv'
  <2>1. TypeOK'
    BY <1>t, <1>1, <1>4, <1>5 DEF TInv, TypeOK, StoreTypes, PipeTypes
  <2>. QED
    BY <1>t, <1>1, <1>5, <2>1 DEF TInv, PipeTypes, Decided
<1>7. Besides'
  <2>1. \A q \in Procs : Cmds(q)' \subseteq Cmds(q)
    BY <1>3
  <2>. QED
    BY <1>t, <1>1, <2>1 DEF Besides, Due, Overran
<1>8. ASSUME NEW j \in Jobs PROVE JInv(j)'
  <2>1. CASE h \in Own(j)
    BY <1>t, <1>1, <1>2, <1>6, <2>1, OwnSent DEF IInv
  <2>2. CASE h \notin Own(j)
    <3>1. SamePipes(j)
      BY <1>t, <1>1, <1>2, <2>2, PipesSame
    <3>2. Due(h)
      BY <1>t, <1>3 DEF Besides
    <3>3. SameStore(j)
      BY <1>t, <1>3, <1>4, <2>2, <3>2, StoreSame
    <3>4. SameJob(j) /\ now' \in Nat
      BY <1>t, <1>1 DEF SameJob, Overran
    <3>. QED
      BY <1>t, <3>1, <3>3, <3>4, Frame DEF IInv
  <2>. QED
    BY <2>1, <2>2
<1>. QED
  BY <1>6, <1>7, <1>8 DEF IInv

(***************************************************************************)
(* A pipe is lost (execPipe logs the error, or the process dies).          *)
(***************************************************************************)
LEMMA LossStep == ASSUME IInv, NEW p \in Procs, ExecFails(p) \/ Crash(p) PROVE IInv'
<1>t. /\ TInv /\ Besides /\ faults \in Nat /\ pipe \in [Procs -> Seq(Command)]
      /\ purge \in [Procs -> [last : 0 .. Horizon, to : 0 .. Horizon]]
      /\ job \in [Jobs -> JobState] /\ \A j \in Jobs : Shape(job[j])
  BY JobShape DEF IInv, TInv, TypeOK, JobState
<1>1. /\ faults' = faults + 1 /\ faults' \in 0 .. MaxFaults /\ pipe' = [pipe EXCEPT ![p] = <<>>]
      /\ UNCHANGED <<now, msg, result, zset, piped, delete, raced>>
  BY <1>t, StoreAssumption DEF ExecFails, Crash, Fault, store
<1>2. \A q \in Procs : pipe'[q] = pipe[q] \/ (pipe'[q] = <<>> /\ faults' # 0)
  BY <1>t, <1>1
<1>3. /\ job' \in [Jobs -> JobState]
      /\ \A j \in Jobs : job'[j] = job[j] \/ job'[j] = [job[j] EXCEPT !.pc = "stuck"]
  <2>1. CASE UNCHANGED job
    BY <1>t, <2>1
  <2>2. CASE Crash(p)
    <3>1. job' = [j \in Jobs |-> IF job[j].at = p /\ job[j].pc # "end"
                                 THEN [job[j] EXCEPT !.pc = "stuck"] ELSE job[j]]
      BY <2>2 DEF Crash
    <3>2. \A e \in JobState : [e EXCEPT !.pc = "stuck"] \in JobState
      BY DEF JobState
    <3>. QED
      BY <1>t, <3>1, <3>2
  <2>. QED
    BY <2>1, <2>2 DEF ExecFails
<1>4. \A j \in Jobs : Shape(job'[j])
  <2>1. \A e \in JobState : LET f == [e EXCEPT !.pc = "stuck"] IN
          f.pc = "stuck" /\ f.kept = e.kept /\ f.verdict = e.verdict
    BY DEF JobState
  <2>2. \A e \in JobState : Shape(e) => Shape([e EXCEPT !.pc = "stuck"])
    BY <2>1 DEF Shape
  <2>. QED
    BY <1>t, <1>3, <2>2
<1>5. /\ purge' \in [Procs -> [last : 0 .. Horizon, to : 0 .. Horizon]]
      /\ \A q \in Procs : purge'[q] = purge[q] \/ purge'[q].to = 0
  <2>1. PICK e : e = [purge[p] EXCEPT !.to = 0]
    OBVIOUS
  <2>2. e \in [last : 0 .. Horizon, to : 0 .. Horizon] /\ e.to = 0
    BY <1>t, <2>1, StoreAssumption
  <2>3. UNCHANGED purge \/ purge' = [purge EXCEPT ![p] = e]
    BY <2>1 DEF ExecFails, Crash
  <2>. QED
    BY <1>t, <2>2, <2>3
<1>l. late' \subseteq Attempt /\ \A k \in Jobs : Overran(k) => Overran(k)'
  <2>1. late \subseteq Attempt /\ (UNCHANGED late \/ late' = {IF e.at = p THEN [e EXCEPT !.at = None] ELSE e : e \in late})
    BY <1>t DEF ExecFails, Crash, TInv, TypeOK
  <2>2. \A e \in Attempt : [e EXCEPT !.at = None] \in Attempt /\ [e EXCEPT !.at = None].j = e.j
    BY DEF Attempt
  <2>3. late' \subseteq Attempt
    BY <2>1, <2>2
  <2>4. ASSUME NEW k \in Jobs, Overran(k) PROVE Overran(k)'
    <3>1. PICK e \in late : e.j = k
      BY <2>4 DEF Overran
    <3>2. e \in late' \/ [e EXCEPT !.at = None] \in late'
      BY <2>1
    <3>. QED
      BY <2>1, <2>2, <3>1, <3>2 DEF Overran
  <2>. QED
    BY <2>3, <2>4
<1>6. TInv'
  <2>1. pipe' \in [Procs -> Seq(Command)] /\ \A q \in Procs : pipe'[q] # <<>> => pipe[q] # <<>>
    BY <1>t, <1>1, NoCommands
  <2>2. TypeOK'
    BY <1>t, <1>l, <1>1, <1>3, <1>5, <2>1 DEF TInv, TypeOK, JobState
  <2>. QED
    BY <1>4, <2>1, <2>2 DEF TInv, Shape, Decided
<1>7. Besides'
  <2>1. \A q \in Procs : Cmds(q)' \subseteq Cmds(q)
    BY <1>2, NoCommands DEF Cmds
  <2>2. now <= now' /\ \A q \in Procs : purge'[q].to # 0 => q \in Purgers /\ purge'[q].to + MetaExpiry <= now
    BY <1>t, <1>1, <1>5 DEF Besides, TInv, TypeOK
  <2>. QED
    BY <1>t, <1>l, <1>6, <2>1, <2>2, BesidesStay
<1>8. ASSUME NEW j \in Jobs PROVE JInv(j)'
  <2>1. faults <= faults'
    BY <1>t, <1>1
  <2>. QED
    BY <1>t, <1>l, <1>1, <1>2, <1>3, <1>6, <2>1, SomethingLost DEF IInv
<1>. QED
  BY <1>6, <1>7, <1>8 DEF IInv

(***************************************************************************)
(* A handler that its worker left behind saves a result (CallbackSave).    *)
(***************************************************************************)
LEMMA LateStep == ASSUME IInv, NEW e \in late, NEW r \in Replies, LateSave(e, r) PROVE IInv'
<1>t. TInv /\ Besides /\ now \in Nat /\ late \subseteq Attempt
  BY DEF IInv, TInv, TypeOK
<1>1. PICK p \in Procs, k \in Jobs : p = e.at /\ k = e.j
  BY <1>t DEF LateSave, Attempt
<1>2. PICK c \in Command : c = LateResult(k) /\ c.op = "late" /\ c.j = k
  BY <1>t, Written
<1>3. /\ Write(p, c, r) /\ Due(c) /\ UNCHANGED <<now, piped, job, purge, delete, raced>>
      /\ \A j \in Jobs : c \notin Own(j)
  BY <1>1, <1>2, Kinds DEF LateSave, Due, Overran
<1>w. /\ StoreTypes /\ PipeTypes /\ faults' \in 0 .. MaxFaults /\ faults <= faults'
      /\ Buffers(p, c) \/ Executed(p, c) \/ Refused(p)
  BY <1>t, <1>3, Writes
<1>l. late' \subseteq Attempt /\ \A j \in Jobs : Overran(j) => Overran(j)'
  <2>1. PICK f : f = [e EXCEPT !.at = None]
    OBVIOUS
  <2>2. f \in Attempt /\ f.j = e.j
    BY <1>t, <2>1 DEF Attempt
  <2>3. late' = (late \ {e}) \cup {f}
    BY <2>1 DEF LateSave
  <2>. QED
    BY <1>t, <2>2, <2>3 DEF Overran
<1>4. TInv'
  <2>1. TypeOK'
    BY <1>t, <1>3, <1>w, <1>l DEF TInv, TypeOK, StoreTypes, PipeTypes
  <2>. QED
    BY <1>t, <1>3, <1>w, <2>1 DEF TInv, PipeTypes, Decided
<1>5. Besides'
  <2>1. \A q \in Procs : Cmds(q)' \subseteq Cmds(q) \cup {c}
    <3>1. CASE Buffers(p, c)
      BY <1>t, <3>1, PipeGrows DEF Buffers
    <3>2. CASE UNCHANGED pipe
      BY <3>2 DEF Cmds
    <3>. QED
      BY <1>w, <3>1, <3>2 DEF Executed, Refused
  <2>2. now <= now' /\ \A q \in Procs : purge'[q].to # 0 => q \in Purgers /\ purge'[q].to + MetaExpiry <= now
    BY <1>t, <1>3 DEF Besides
  <2>. QED
    BY <1>t, <1>3, <1>l, <1>4, <2>1, <2>2, BesidesStay
<1>6. ASSUME NEW j \in Jobs PROVE JInv(j)'
  <2>1. SameJob(j) /\ now' \in Nat
    BY <1>t, <1>3, <1>w, <1>l DEF SameJob
  <2>. QED
    BY <1>t, <1>3, <2>1, Elsewhere DEF IInv
<1>. QED
  BY <1>4, <1>5, <1>6 DEF IInv

LEMMA TickStep == ASSUME IInv, Tick \/ UNCHANGED vars PROVE IInv'
<1>1. /\ now \in 1 .. Horizon /\ now' \in 1 .. Horizon /\ now <= now'
      /\ UNCHANGED <<msg, result, zset, piped, pipe, job, late, purge, delete, raced, faults>>
  BY StoreAssumption DEF Tick, vars, store, IInv, TInv, TypeOK
<1>t. TInv /\ Besides /\ faults \in Nat /\ MetaExpiry \in Nat
      /\ purge \in [Procs -> [last : 0 .. Horizon, to : 0 .. Horizon]]
      /\ pipe \in [Procs -> Seq(Command)]
  BY StoreAssumption DEF IInv, TInv, TypeOK
<1>2. TInv'
  <2>1. TypeOK'
    BY <1>1, <1>t DEF TInv, TypeOK
  <2>. QED
    BY <1>1, <1>t, <2>1 DEF TInv, Decided
<1>3. Besides'
  <2>1. \A q \in Procs : Cmds(q)' = Cmds(q)
    BY <1>1 DEF Cmds
  <2>2. \A q \in Procs : purge'[q].to # 0 => q \in Purgers /\ purge'[q].to + MetaExpiry <= now
    BY <1>1, <1>t DEF Besides
  <2>. QED
    BY <1>1, <1>t, <1>2, <2>1, <2>2, BesidesStay DEF Overran
<1>4. ASSUME NEW j \in Jobs PROVE JInv(j)'
  <2>1. SamePipes(j) /\ SameStore(j) /\ SameJob(j) /\ now' \in Nat
    BY <1>1, <1>t, PipesSame, StoreSame DEF SameJob, store, Overran
  <2>. QED
    BY <1>t, <2>1, Frame DEF IInv
<1>. QED
  BY <1>2, <1>3, <1>4 DEF IInv

LEMMA Initially == ASSUME Init PROVE IInv
<1>1. /\ now \in 1 .. Horizon /\ [status |-> "none", n |-> 0, since |-> 0] \in Msg
      /\ faults = 0 /\ faults \in 0 .. MaxFaults
  BY StoreAssumption DEF Init, Msg
<1>j. /\ job \in [Jobs -> JobState]
      /\ \A j \in Jobs : job[j].pc = "new" /\ job[j].at = None /\ job[j].verdict = "queued" /\ ~job[j].kept
  <2>1. PICK start : start = [pc : {"new"}, at : {None}, n : {0}, since : {0},
                              verdict : {"queued"}, chained : BOOLEAN, kept : {FALSE}]
    OBVIOUS
  <2>2. job \in [Jobs -> start]
    BY <2>1 DEF Init
  <2>3. \A e \in start : e.pc = "new" /\ e.at = None /\ e.verdict = "queued" /\ ~e.kept
    BY <2>1
  <2>4. start \subseteq JobState
    <3>1. 0 \in 0 .. Retries /\ 0 \in 0 .. Horizon
      BY StoreAssumption
    <3>. QED
      BY <2>1, <3>1 DEF JobState, Status
  <2>. QED
    BY <2>2, <2>3, <2>4
<1>2. /\ msg \in [Jobs -> Msg] /\ result = {} /\ zset \in [Lists -> [Jobs -> 0 .. Horizon]]
      /\ \A j \in Jobs : msg[j].status = "none" /\ delete[j] = "none"
      /\ \A l \in Lists : \A j \in Jobs : zset[l][j] = 0
      /\ \A p \in Procs : pipe[p] = <<>> /\ Cmds(p) = {} /\ purge[p].to = 0
      /\ raced = {}
  BY <1>1, NoCommands, StoreAssumption DEF Init, Cmds
<1>3. TInv
  <2>1. TypeOK
    BY <1>1, <1>j, <1>2, StoreAssumption DEF Init, TypeOK, JobState
  <2>2. pipe \in [Procs -> Seq(Command)]
    BY NoCommands DEF Init
  <2>. QED
    BY <1>j, <1>2, <2>1, <2>2 DEF TInv, Decided, Final
<1>4. Besides
  BY <1>2 DEF Besides
<1>5. ASSUME NEW j \in Jobs PROVE JInv(j)
  <2>1. ~Decided(j) /\ ~Seen(j) /\ ~Coming(j)
    BY <1>j, <1>2 DEF Decided, Seen, Coming, Final
  <2>2. ListedOnce(j)
    BY <1>2, <2>1 DEF ListedOnce
  <2>3. InOrder(j)
    BY <1>2, <2>1, NoCommands DEF InOrder, Final
  <2>4. Backing(j)
    BY <1>j, <1>2, <2>1 DEF Backing, Seen
  <2>5. Deleted(j)
    BY <1>2 DEF Deleted
  <2>6. NoRace(j)
    BY <1>2, <2>1, NoCommands DEF NoRace
  <2>7. Forward(j)
    <3>1. JobRank(j) = 0
      BY <1>j DEF JobRank, RankOf
    <3>2. Rank(msg[j]) = 0
      BY <1>2 DEF Rank, Final
    <3>. QED
      BY <1>2, <3>1, <3>2, NoCommands DEF Forward
  <2>. QED
    BY <2>2, <2>3, <2>4, <2>5, <2>6, <2>7 DEF JInv
<1>. QED
  BY <1>3, <1>4, <1>5 DEF IInv

-----------------------------------------------------------------------------
(* Theorems                                                                *)

(***************************************************************************)
(* The inductive invariant holds, whatever the interleaving of writes,     *)
(* late results, pipes, purges, deletions, failed calls and crashes (Set,  *)
(* execPipe, expireMeta, DeleteJob, execJob).                              *)
(***************************************************************************)
THEOREM Inductive == Spec => []IInv
<1>1. Init => IInv
  BY Initially
<1>2. IInv /\ [Next]_vars => IInv'
  <2> SUFFICES ASSUME IInv, [Next]_vars PROVE IInv'
    OBVIOUS
  <2>1. CASE Tick \/ UNCHANGED vars
    BY <2>1, TickStep
  <2>2. ASSUME NEW j \in Jobs, NEW r \in Replies, JobStep(j, r) PROVE IInv'
    <3>1. ASSUME NEW p \in Procs, Started(p, j, r) \/ Processing(p, j, r) PROVE IInv'
      BY <3>1, UnfinishedStep
    <3>2. CASE Retrying(j, r)
      <4>1. job[j].at \in Procs
        BY <3>2 DEF Retrying, Answered, IInv, TInv
      <4>. QED
        BY <3>2, <4>1, UnfinishedStep
    <3>3. CASE Save(j, r)
      BY <3>3, SaveStep
    <3>4. CASE SetSuccess(j, r) \/ SetFailed(j, r)
      BY <3>4, ListStep
    <3>5. CASE SetFinal(j, r)
      BY <3>5, FinalStep
    <3>. QED
      BY <2>2, <3>1, <3>2, <3>3, <3>4, <3>5 DEF JobStep
  <2>3. ASSUME NEW j \in Jobs, NoResult(j) PROVE IInv'
    BY <2>3, NoResultStep
  <2>4. ASSUME NEW j \in Jobs, AskDelete(j) \/ DeleteJob(j) \/ DeleteFails(j) PROVE IInv'
    BY <2>4, DeleteStep
  <2>5. ASSUME NEW p \in Procs, Send(p) PROVE IInv'
    BY <2>5, SendStep
  <2>6. ASSUME NEW p \in Procs, ExecFails(p) \/ Crash(p) PROVE IInv'
    BY <2>6, LossStep
  <2>8. ASSUME NEW e \in late, NEW r \in Replies, LateSave(e, r) PROVE IInv'
    BY <2>8, LateStep
  <2>7. ASSUME NEW p \in Procs, NEW r \in Replies, PurgeFailed(p, r) \/ PurgeSuccess(p, r) PROVE IInv'
    BY <2>7, PurgeStep
  <2>. QED
    BY <2>1, <2>2, <2>3, <2>4, <2>5, <2>6, <2>7, <2>8 DEF Next
<1>. QED
  BY <1>1, <1>2, PTL DEF Spec

(***************************************************************************)
(* A job whose status is final is in the list of that verdict and in no    *)
(* other, and a successful one's result can be read if its last attempt    *)
(* saved one without an error, or it has a continuation; until it is       *)
(* deleted, its entry is old enough to be purged, or an Exec lost what its *)
(* worker had in a pipe (statusDone, statusFailed, SetSuccess, SetFailed). *)
(***************************************************************************)
THEOREM FinalBacked == Spec => []FinalIsBacked
<1>1. ASSUME IInv PROVE FinalIsBacked
  <2>1. TypeOK
    BY <1>1 DEF IInv, TInv
  <2>2. ASSUME NEW j \in Jobs, msg[j].status \in Final, delete[j] = "none", job[j].at \in piped => faults = 0
        PROVE  /\ msg[j].status = "successful" /\ job[j].kept => j \in result
               /\ \A l \in Lists :
                    IF msg[j].status = Verdict(l)
                    THEN zset[l][j] # 0 \/ (Purgers # {} /\ msg[j].since + MetaExpiry <= now)
                    ELSE zset[l][j] = 0
    <3>1. JInv(j) /\ Good(j) /\ Seen(j)
      BY <1>1, <2>2 DEF IInv, Good, Seen
    <3>2. /\ Decided(j) /\ job[j].at \in Procs
          /\ msg[j].status = job[j].verdict /\ msg[j].since = job[j].since
          /\ \A l \in Lists : zset[l][j] \in (IF Verdict(l) = job[j].verdict THEN {0, job[j].since} ELSE {0})
      BY <2>2, <3>1 DEF JInv, ListedOnce
    <3>3. Cmds(job[j].at) \cap Adds(j) = {} /\ Cmds(job[j].at) \cap Results(j) = {}
      BY <2>2, <3>1, <3>2 DEF JInv, InOrder
    <3>4. HasEntry(j) /\ (job[j].kept => HasResult(j))
      BY <2>2, <3>1, <3>2 DEF JInv, Backing
    <3>5. job[j].kept => j \in result
      BY <3>3, <3>4 DEF HasResult
    <3>6. ASSUME NEW l \in Lists, msg[j].status = Verdict(l)
          PROVE  zset[l][j] # 0 \/ (Purgers # {} /\ msg[j].since + MetaExpiry <= now)
      <4>1. \A k \in Lists : Verdict(k) = job[j].verdict => k = l
        BY <3>2, <3>6 DEF Verdict, Lists
      <4>. QED
        BY <3>2, <3>3, <3>4, <4>1 DEF HasEntry
    <3>7. ASSUME NEW l \in Lists, msg[j].status # Verdict(l) PROVE zset[l][j] = 0
      BY <3>2, <3>7
    <3>. QED
      BY <3>5, <3>6, <3>7
  <2>. QED
    BY <2>1, <2>2 DEF FinalIsBacked
<1>. QED
  BY <1>1, Inductive, PTL

(***************************************************************************)
(* Once DeleteJob returned without an error for a job seen final, no       *)
(* buffered write and no purge brings its list entries back, nor its       *)
(* result, unless its status writes raced or one of its handlers was left  *)
(* behind by its worker (DeleteJob, execPipe, expireMeta, execJob).        *)
(***************************************************************************)
THEOREM DeletedOut == Spec => []DeletedStaysOut
<1>1. ASSUME IInv PROVE DeletedStaysOut
  <2>1. ASSUME NEW j \in Jobs, delete[j] = "ok"
        PROVE  (j \notin raced /\ ~Overran(j) => j \notin result) /\ \A l \in Lists : zset[l][j] = 0
    BY <1>1, <2>1 DEF IInv, JInv, Deleted, NoRace, Lists
  <2>. QED
    BY <2>1 DEF DeletedStaysOut
<1>. QED
  BY <1>1, Inductive, PTL

(* A command changes the status of a job when it is a message of the job.  *)
LEMMA StatusKept ==
  ASSUME TInv, NEW j \in Jobs, NEW p \in Procs, NEW c \in Command, c \notin Msgs(j),
         NEW r \in Replies, Write(p, c, r)
  PROVE  msg'[j] = msg[j]
<1>1. CASE Executed(p, c)
  BY <1>1, Executes DEF Executed, Effect
<1>2. CASE UNCHANGED store
  BY <1>2 DEF store
<1>. QED
  BY <1>1, <1>2, Writes DEF Buffers, Refused

(* Each status a process writes is after the ones it wrote before.         *)
LEMMA StatusWritten ==
  ASSUME TInv, NEW j \in Jobs, NEW r \in Replies, NEW p \in Procs,
         \/ Started(p, j, r) \/ Processing(p, j, r)
         \/ (Retrying(j, r) \/ SetFinal(j, r)) /\ p = job[j].at
  PROVE  \E m \in Msg : Write(p, SetMsg(j, m), r) /\ JobRank(j) < Rank(m)
<1>t. /\ job[j] \in JobState /\ Shape(job[j]) /\ Retries \in Nat /\ job[j].n \in Nat /\ job[j].n <= Retries
      /\ job[j].since \in 0 .. Horizon /\ job[j].verdict \in Status
  <2>1. job[j] \in JobState /\ Shape(job[j])
    BY JobShape
  <2>. QED
    BY <2>1, StoreAssumption DEF JobState
<1>1. ASSUME NEW s \in Status, NEW n \in 0 .. Retries, SetStatus(p, j, s, n, r),
             /\ s = "queued" => JobRank(j) = 0
             /\ s = "processing" => JobRank(j) = 2 * n + 1
             /\ s = "retrying" => JobRank(j) = 2 * n
             /\ s \in Final => JobRank(j) <= 2 * Retries + 2
      PROVE  \E m \in Msg : Write(p, SetMsg(j, m), r) /\ JobRank(j) < Rank(m)
  <2>1. PICK m : m = [status |-> s, n |-> n, since |-> job[j].since]
    OBVIOUS
  <2>2. m \in Msg /\ m.status = s /\ m.n = n
    BY <1>t, <2>1 DEF Msg
  <2>3. Write(p, SetMsg(j, m), r)
    BY <1>1, <2>1 DEF SetStatus
  <2>4. Rank(m) \in Nat /\ JobRank(j) \in Nat
    BY <1>t, <2>2, RankType DEF JobRank
  <2>5. JobRank(j) < Rank(m)
    <3>1. /\ s = "queued" => Rank(m) = 1
          /\ s = "retrying" => Rank(m) = 2 * n + 1
          /\ s = "processing" => Rank(m) = 2 * n + 2
          /\ s \in Final => Rank(m) = 2 * Retries + 3
      BY <2>2, RankType
    <3>. QED
      BY <1>1, <1>t, <2>4, <3>1 DEF Status, Final
  <2>. QED
    BY <2>2, <2>3, <2>5
<1>2. CASE Started(p, j, r)
  <2>1. JobRank(j) = 0 /\ SetStatus(p, j, "queued", 0, r)
    BY <1>2 DEF Started, JobRank, RankOf
  <2>. QED
    BY <1>1, <1>t, <2>1 DEF Status, Final
<1>3. CASE Processing(p, j, r)
  <2>1. JobRank(j) = 2 * job[j].n + 1 /\ SetStatus(p, j, "processing", job[j].n, r)
    BY <1>3 DEF Processing, JobRank, RankOf
  <2>. QED
    BY <1>1, <1>t, <2>1 DEF Status, Final
<1>4. CASE Retrying(j, r) /\ p = job[j].at
  <2>1. /\ JobRank(j) = 2 * job[j].n + 2 /\ SetStatus(p, j, "retrying", job[j].n + 1, r) /\ job[j].n < Retries
    BY <1>4 DEF Retrying, Answered, JobRank, RankOf
  <2>2. job[j].n + 1 \in 0 .. Retries /\ JobRank(j) = 2 * (job[j].n + 1)
    BY <1>t, <2>1
  <2>. QED
    BY <1>1, <2>1, <2>2 DEF Status, Final
<1>5. CASE SetFinal(j, r) /\ p = job[j].at
  <2>1. /\ JobRank(j) = 2 * job[j].n + 2 /\ SetStatus(p, j, job[j].verdict, job[j].n, r) /\ job[j].verdict \in Final
    BY <1>5, <1>t DEF SetFinal, JobRank, RankOf, Shape
  <2>2. JobRank(j) <= 2 * Retries + 2 /\ job[j].n \in 0 .. Retries
    BY <1>t, <2>1
  <2>. QED
    BY <1>1, <1>t, <2>1, <2>2 DEF Status, Final
<1>. QED
  BY <1>2, <1>3, <1>4, <1>5

(***************************************************************************)
(* What GetJob shows of a job only moves forward, from one status to a     *)
(* later one and through the retries up to the final status, unless a      *)
(* process wrote a status while another one still had one of the job in    *)
(* its pipe (setStatus, Set, execPipe).                                    *)
(***************************************************************************)
THEOREM Advancing == Spec => StatusAdvances
<1>1. ASSUME IInv, [Next]_vars, NEW j \in Jobs, j \notin raced, msg'[j] # msg[j]
      PROVE  Rank(msg'[j]) > Rank(msg[j])
  <2>t. TInv /\ Forward(j) /\ msg[j] \in Msg /\ Rank(msg[j]) \in Nat /\ JobRank(j) \in Nat
    <3>1. TInv /\ Forward(j) /\ msg[j] \in Msg /\ job[j] \in JobState
      BY <1>1, JobShape DEF IInv, JInv, TInv, TypeOK
    <3>. QED
      BY <3>1, RankType DEF JobRank
  <2>1. ASSUME NEW p \in Procs, NEW k \in Jobs, NEW r \in Replies,
               NEW m \in Msg, Write(p, SetMsg(k, m), r), JobRank(k) < Rank(m)
        PROVE  Rank(msg'[j]) > Rank(msg[j])
    <3>1. SetMsg(k, m) \in Msgs(k) /\ SetMsg(k, m) \in Command /\ SetMsg(k, m).msg = m
      BY <2>t, Written, Kinds DEF Own
    <3>2. CASE k = j
      <4>1. msg'[j] = m
        <5>1. CASE Executed(p, SetMsg(k, m))
          BY <2>t, <3>1, <3>2, <5>1, Executes DEF Executed, Effect
        <5>2. CASE UNCHANGED store
          BY <1>1, <5>2 DEF store
        <5>. QED
          BY <2>1, <2>t, <3>1, <5>1, <5>2, Writes DEF Buffers, Refused
      <4>2. Rank(m) \in Nat /\ Rank(msg[j]) <= JobRank(j)
        BY <2>t, RankType DEF Forward
      <4>. QED
        BY <2>1, <2>t, <3>2, <4>1, <4>2
    <3>3. CASE k # j
      <4>1. SetMsg(k, m) \notin Msgs(j)
        BY <3>1, <3>3, Kinds DEF Own
      <4>. QED
        BY <1>1, <2>1, <2>t, <3>1, <4>1, StatusKept
    <3>. QED
      BY <3>2, <3>3
  <2>2. ASSUME NEW k \in Jobs, NEW r \in Replies, JobStep(k, r) PROVE Rank(msg'[j]) > Rank(msg[j])
    <3>1. ASSUME NEW p \in Procs, Started(p, k, r) \/ Processing(p, k, r)
          PROVE  Rank(msg'[j]) > Rank(msg[j])
      BY <2>1, <2>t, <3>1, StatusWritten
    <3>2. CASE Retrying(k, r) \/ SetFinal(k, r)
      <4>1. job[k].at \in Procs
        BY <2>t, <3>2 DEF Retrying, Answered, SetFinal, TInv
      <4>. QED
        BY <2>1, <2>t, <3>2, <4>1, StatusWritten
    <3>3. CASE Save(k, r) \/ SetSuccess(k, r) \/ SetFailed(k, r)
      <4>1. job[k].at \in Procs /\ (Write(job[k].at, SetResult(k), r) \/ \E l \in Lists : Write(job[k].at, ZAdd(l, k), r))
        BY <2>t, <3>3 DEF Save, SetSuccess, SetFailed, Answered, List, Lists, TInv
      <4>2. ASSUME NEW c \in Results(k) \cup Adds(k), Write(job[k].at, c, r) PROVE FALSE
        <5>1. c \in Command /\ c \notin Msgs(j)
          BY <4>2, Kinds DEF Own
        <5>. QED
          BY <1>1, <2>t, <4>1, <4>2, <5>1, StatusKept
      <4>. QED
        BY <2>t, <4>1, <4>2, Written
    <3>. QED
      BY <2>2, <3>1, <3>2, <3>3 DEF JobStep
  <2>3. ASSUME NEW p \in Procs, Send(p) PROVE Rank(msg'[j]) > Rank(msg[j])
    <3>1. pipe[p] # <<>> /\ Execute(Head(pipe[p])) /\ pipe' = [pipe EXCEPT ![p] = Tail(@)]
      BY <2>3 DEF Send
    <3>2. Head(pipe[p]) \in Command /\ Head(pipe[p]) \in Cmds(p)
      BY <2>t, <3>1, PipeShrinks
    <3>3. Effect(Head(pipe[p]), j)
      BY <2>t, <3>1, <3>2, Executes
    <3>. QED
      BY <1>1, <2>t, <3>2, <3>3 DEF Effect, Forward
  <2>6. ASSUME NEW e \in late, NEW r \in Replies, LateSave(e, r) PROVE FALSE
    <3>1. e \in Attempt /\ e.at # None /\ Write(e.at, LateResult(e.j), r)
      BY <2>t, <2>6 DEF LateSave, TInv, TypeOK
    <3>2. e.j \in Jobs /\ e.at \in Procs
      BY <3>1 DEF Attempt
    <3>3. LateResult(e.j) \in Command /\ LateResult(e.j) \notin Msgs(j)
      BY <2>t, <3>2, Written DEF Own
    <3>. QED
      BY <1>1, <2>t, <3>1, <3>2, <3>3, StatusKept
  <2>4. ASSUME NEW p \in Procs, NEW r \in Replies, PurgeFailed(p, r) \/ PurgeSuccess(p, r) PROVE FALSE
    <3>1. PICK l \in Lists, to \in 0 .. Horizon : Write(p, ZRemRange(l, to), r)
      <4>1. now > MetaExpiry => Cutoff \in 0 .. Horizon
        BY <2>t, StoreAssumption DEF Cutoff, TInv, TypeOK
      <4>2. purge[p].to \in 0 .. Horizon
        BY <2>t DEF TInv, TypeOK
      <4>. QED
        BY <2>4, <4>1, <4>2 DEF PurgeFailed, PurgeSuccess, Lists
    <3>2. ZRemRange(l, to) \in Command /\ ZRemRange(l, to) \notin Msgs(j)
      BY <2>t, <3>1, Written DEF Own
    <3>. QED
      BY <1>1, <2>t, <3>1, <3>2, StatusKept
  <2>5. ASSUME \/ Tick \/ UNCHANGED vars
               \/ \E k \in Jobs : NoResult(k) \/ AskDelete(k) \/ DeleteJob(k) \/ DeleteFails(k)
               \/ \E p \in Procs : ExecFails(p) \/ Crash(p)
        PROVE  FALSE
    BY <1>1, <2>5 DEF Tick, vars, store, NoResult, AskDelete, DeleteJob, DeleteFails, ExecFails, Crash
  <2>. QED
    BY <1>1, <2>2, <2>3, <2>4, <2>5, <2>6 DEF Next
<1>2. IInv /\ [Next]_vars => [\A j \in Jobs : j \notin raced /\ msg'[j] # msg[j] => Rank(msg'[j]) > Rank(msg[j])]_vars
  BY <1>1
<1>. QED
  BY <1>2, Inductive, PTL DEF Spec, StatusAdvances

=============================================================================
