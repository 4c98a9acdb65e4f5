---------------------------- MODULE ChnNetProofs -----------------------------
(***************************************************************************)
(* Theorems about the network natives of ChnNet, for any number of         *)
(* descriptors and slots, any buffer, and any server.                      *)
(***************************************************************************)
EXTENDS ChnNet, CommonLemmas

----------------------------------------------------------------------------
(* The stages of a call                                                    *)

\* What a stage takes if it succeeds.
Takes(stage) == {r \in {"fd", "ctx", "ssl", "slot"} :
                    \/ r = "fd" /\ stage \in {"socket", "accept"}
                    \/ r = "ctx" /\ stage = "SSL_CTX_new"
                    \/ r = "ssl" /\ stage = "SSL_new"
                    \/ r = "slot" /\ stage = "tls_alloc"}

\* What a native has when it comes to its k-th stage.
TakenBefore(fn, k) ==
    {r \in {"fd", "ctx", "ssl", "slot"} : \E i \in 1..k - 1 : r \in Takes(net_dispatch[fn][i][1])}

\* What a native has when its stages are done.
Obtained(fn) == CASE fn \in {"tcp_listen", "tcp_accept", "tcp_connect", "udp_bind", "http"} -> {"fd"}
                  [] fn = "https" -> {"fd", "ctx", "ssl"}
                  [] fn = "tls_listen" -> {"fd", "ctx", "slot"}
                  [] fn = "tls_accept" -> {"fd", "ssl", "slot"}
                  [] fn = "tls_connect" -> {"fd", "ctx", "ssl", "slot"}

\* Nothing is taken twice, and a stage that can fail releases all that was taken, but for the
\* slot, which is not marked yet.
Orderly(fn) ==
    /\ Len(net_dispatch[fn]) \in Nat
    /\ \A k \in 1..Len(net_dispatch[fn]) :
          /\ Takes(net_dispatch[fn][k][1]) \cap TakenBefore(fn, k) = {}
          /\ net_dispatch[fn][k][1] # "SSL_new"
                => net_dispatch[fn][k][2] = TakenBefore(fn, k) \ {"slot"}
    /\ TakenBefore(fn, Len(net_dispatch[fn]) + 1) = Obtained(fn)

\* The tables of the stages say what to release at each of them.
LEMMA StagesOrderly == \A fn \in Natives : Orderly(fn)
<1> USE DEF Orderly, Takes, TakenBefore, Obtained
<1>1. /\ net_dispatch["tcp_listen"] = tcp_listen /\ net_dispatch["tcp_accept"] = tcp_accept
      /\ net_dispatch["tcp_connect"] = tcp_connect /\ net_dispatch["udp_bind"] = udp_bind
      /\ net_dispatch["http"] = http /\ net_dispatch["https"] = https
      /\ net_dispatch["tls_listen"] = tls_listen /\ net_dispatch["tls_accept"] = tls_accept
      /\ net_dispatch["tls_connect"] = tls_connect
  BY DEF net_dispatch
<1>2. Orderly("tcp_listen")
  BY <1>1 DEF tcp_listen
<1>3. Orderly("tcp_accept")
  BY <1>1 DEF tcp_accept
<1>4. Orderly("tcp_connect")
  BY <1>1 DEF tcp_connect
<1>5. Orderly("udp_bind")
  BY <1>1 DEF udp_bind
<1>6. Orderly("http")
  BY <1>1 DEF http
<1>7. Orderly("https")
  BY <1>1 DEF https
<1>8. Orderly("tls_listen")
  BY <1>1 DEF tls_listen
<1>9. Orderly("tls_accept")
  BY <1>1 DEF tls_accept
<1>10. Orderly("tls_connect")
  BY <1>1 DEF tls_connect
<1> HIDE DEF Orderly
<1>11. Natives = {"tcp_listen", "tcp_accept", "tcp_connect", "udp_bind", "http", "https", "tls_listen",
                 "tls_accept", "tls_connect"}
  BY DEF Natives, net_dispatch
<1> QED BY <1>2, <1>3, <1>4, <1>5, <1>6, <1>7, <1>8, <1>9, <1>10, <1>11

\* A stage that is done adds what it takes to what the call has.
LEMMA OneMoreStage ==
    ASSUME NEW fn, NEW k \in Nat \ {0}
    PROVE  TakenBefore(fn, k + 1) = TakenBefore(fn, k) \cup Takes(net_dispatch[fn][k][1])
<1>1. 1..(k + 1) - 1 = 1..(k - 1) \cup {k}
  OBVIOUS
<1> QED BY <1>1 DEF TakenBefore, Takes

----------------------------------------------------------------------------
(* Who has what                                                            *)

Taken == IF call.fn = "idle" THEN {} ELSE TakenBefore(call.fn, call.at)
CallHas(r, x) == IF r \in Taken THEN {x} ELSE {}

CallRecord == [fn : Natives \cup {"idle"}, at : Nat \ {0}, fd : Nat, ssl : Nat, ctx : Nat, slot : Nat,
               sent : Nat, got : Nat]

NetTypes ==
    /\ call \in CallRecord
    /\ call.fn # "idle" => call.at <= Len(Stages) + 1
    /\ tls_pool \in [Slots -> [active : BOOLEAN, fd : Nat, ssl : Nat, ctx : Nat]]
    /\ open \subseteq Nat
    /\ held \subseteq Nat \ {0} /\ IsFiniteSet(held)
    /\ ssls \in [DOMAIN ssls -> Nat] /\ DOMAIN ssls \subseteq Nat \ {0} /\ IsFiniteSet(DOMAIN ssls)
    /\ inbox \in [DOMAIN ssls -> [wire : Nat, pending : Nat]]

\* Whatever is open has one owner: the script, a slot or the call that is in progress.
Owners ==
    /\ open = mine \cup PoolFds \cup CallHas("fd", call.fd)
    /\ DOMAIN ssls = PoolSsls \cup CallHas("ssl", call.ssl)
    /\ held = PoolCtxs \cup CallHas("ctx", call.ctx)
    /\ mine \cap PoolFds = {} /\ CallHas("fd", call.fd) \cap (mine \cup PoolFds) = {}
    /\ CallHas("ssl", call.ssl) \cap PoolSsls = {} /\ CallHas("ctx", call.ctx) \cap PoolCtxs = {}
    /\ \A i, j \in Active : i # j =>
          /\ tls_pool[i].fd # tls_pool[j].fd
          /\ tls_pool[i].ssl = tls_pool[j].ssl => tls_pool[i].ssl = 0
          /\ tls_pool[i].ctx = tls_pool[j].ctx => tls_pool[i].ctx = 0
    /\ \A i \in Inactive : tls_pool[i].ssl = 0
    /\ "slot" \in Taken => call.slot \in Inactive
    /\ "ssl" \notin Taken => call.ssl = 0

NetInv == NetTypes /\ Owners

\* The lowest number that is not in use is not in use.
LEMMA LeastIsMember ==
    ASSUME NEW S \in SUBSET Nat, S # {}
    PROVE  Least(S) \in S
BY LeastExists DEF Least

\* The number handed out next is no open descriptor's, nor that of an object in use.
LEMMA UnusedIsUnused ==
    ASSUME NEW S \in SUBSET Nat, IsFiniteSet(S)
    PROVE  Unused(S) \in Nat \ {0} /\ Unused(S) \notin S
<1> PICK n \in Nat : n = Cardinality(S)
  BY FS_CardinalityType
<1>1. ~(1..n + 1 \subseteq S)
  <2>1. Cardinality(1..n + 1) = n + 1
    BY FS_Interval
  <2> QED BY <2>1, FS_Subset
<1>2. (1..n + 1) \ S \in SUBSET Nat /\ (1..n + 1) \ S # {}
  BY <1>1
<1>3. Least((1..n + 1) \ S) \in (1..n + 1) \ S
  BY <1>2, LeastIsMember
<1> QED BY <1>3 DEF Unused

\* The values of a function on a finite set.
LEMMA FiniteRange ==
    ASSUME NEW f, IsFiniteSet(DOMAIN f), f \in [DOMAIN f -> Nat]
    PROVE  IsFiniteSet(Range(f)) /\ Range(f) \subseteq Nat
<1>1. f \in Surjection(DOMAIN f, Range(f))
  BY DEF Surjection, Range
<1>2. IsFiniteSet(Range(f))
  BY <1>1, FS_Surjection
<1> QED BY <1>2 DEF Range

\* Nothing is open when the process starts.
LEMMA InitNetInv == Init => NetInv
<1> SUFFICES ASSUME Init PROVE NetInv
  OBVIOUS
<1> USE DEF Init
<1>1. DOMAIN ssls = {} /\ DOMAIN inbox = {}
  OBVIOUS
<1>2. Taken = {} /\ Active = {} /\ PoolFds = {} /\ PoolSsls = {} /\ PoolCtxs = {}
  BY DEF Taken, Idle, Active, Free, PoolFds, PoolSsls, PoolCtxs
<1>3. NetTypes
  BY <1>1, FS_EmptySet DEF NetTypes, CallRecord, Idle, Free
<1>4. Owners
  BY <1>1, <1>2 DEF Owners, CallHas, Inactive, Free, Idle
<1> QED BY <1>3, <1>4 DEF NetInv

----------------------------------------------------------------------------
(* Calls                                                                   *)

\* Between calls.
LEMMA IdleCall == Idle \in CallRecord /\ Idle.at = 1 /\ Idle.ssl = 0 /\ Idle.fn = "idle"
BY DEF Idle, CallRecord

\* A native is called; tls_accept with its listener's context.
LEMMA BegunCall ==
    ASSUME NEW fn \in Natives, NEW c \in Nat
    PROVE  /\ [Idle EXCEPT !.fn = fn] \in CallRecord
           /\ [Idle EXCEPT !.fn = fn].fn = fn
           /\ [Idle EXCEPT !.fn = fn].at = 1 /\ [Idle EXCEPT !.fn = fn].ssl = 0
           /\ [Idle EXCEPT !.fn = fn, !.ctx = c] \in CallRecord
           /\ [Idle EXCEPT !.fn = fn, !.ctx = c].fn = fn
           /\ [Idle EXCEPT !.fn = fn, !.ctx = c].at = 1 /\ [Idle EXCEPT !.fn = fn, !.ctx = c].ssl = 0
BY IdleCall DEF CallRecord

\* A call begins with nothing.
LEMMA BeginKeepsNetInv ==
    ASSUME NetInv, call.fn = "idle", NEW fn \in Natives,
           call' \in CallRecord, call'.fn = fn, call'.at = 1, call'.ssl = 0,
           UNCHANGED <<open, held, ssls, inbox, tls_pool, mine>>
    PROVE  NetInv'
<1>2. Len(net_dispatch[fn]) \in Nat
  BY StagesOrderly DEF Orderly
<1>3. Taken = {} /\ Taken' = {}
  BY DEF Taken, TakenBefore
<1>4. NetTypes'
  <2>1. call'.at <= Len(net_dispatch[fn]) + 1 /\ Stages' = net_dispatch[fn]
    BY <1>2 DEF Stages
  <2> QED BY <2>1 DEF NetInv, NetTypes, CallRecord
<1>5. Owners'
  BY <1>3 DEF NetInv, Owners, CallHas, Active, Inactive, PoolFds, PoolSsls, PoolCtxs
<1> QED BY <1>4, <1>5 DEF NetInv

\* A stage that succeeds takes what no one has.
LEMMA SucceedsKeepsNetInv ==
    ASSUME NetInv, NEW st, succeeds(st)
    PROVE  NetInv'
<1> DEFINE fn == call.fn
           k == call.at
<1>1. /\ fn \in Natives /\ k \in Nat \ {0} /\ k \in 1..Len(net_dispatch[fn]) /\ st = net_dispatch[fn][k][1]
      /\ Len(net_dispatch[fn]) \in Nat /\ fn # "idle"
  BY StagesOrderly DEF succeeds, Busy, Stages, NetInv, NetTypes, CallRecord, Orderly
<1>2. Takes(st) \cap Taken = {} /\ Taken = TakenBefore(fn, k)
  BY <1>1, StagesOrderly DEF Orderly, Taken
<1>3. ASSUME call'.fn = fn, call'.at = k + 1 PROVE Taken' = Taken \cup Takes(st)
  BY <1>1, <1>2, <1>3, OneMoreStage DEF Taken
<1>4. k + 1 \in Nat \ {0} /\ k + 1 <= Len(net_dispatch[fn]) + 1
  BY <1>1
<1> USE DEF succeeds
<1> HIDE DEF fn, k
<1>5. CASE st \in {"socket", "accept"}
  <2>1. FreeFds # {} /\ call' = [call EXCEPT !.fd = Least(FreeFds), !.at = @ + 1]
        /\ open' = open \cup {Least(FreeFds)} /\ UNCHANGED <<held, ssls, inbox>>
    BY <1>5 DEF Taking
  <2>2. Least(FreeFds) \in Nat /\ Least(FreeFds) \notin open
    <3>1. FreeFds \in SUBSET Nat /\ FreeFds \cap open = {}
      BY NetAssumption DEF FreeFds
    <3> QED BY <2>1, <3>1, LeastIsMember
  <2>3. Takes(st) = {"fd"}
    BY <1>5 DEF Takes
  <2>4. /\ call'.fn = fn /\ call'.at = k + 1 /\ call'.fd = Least(FreeFds)
        /\ UNCHANGED <<call.ssl, call.ctx, call.slot>>
    BY <2>1 DEF NetInv, NetTypes, CallRecord, fn, k
  <2>5. NetTypes'
    BY <1>4, <2>1, <2>2, <2>4 DEF NetInv, NetTypes, CallRecord, Stages, fn, k
  <2>6. Owners'
    BY <1>2, <1>3, <2>1, <2>2, <2>3, <2>4
       DEF NetInv, Owners, CallHas, Active, Inactive, PoolFds, PoolSsls, PoolCtxs
  <2> QED BY <2>5, <2>6 DEF NetInv
<1>6. CASE st = "SSL_CTX_new"
  <2> DEFINE c == Unused(held \cup Range(ssls))
  <2>1. call' = [call EXCEPT !.ctx = c, !.at = @ + 1]
        /\ held' = held \cup {c} /\ UNCHANGED <<open, ssls, inbox>>
    BY <1>6 DEF Taking
  <2>2. c \in Nat \ {0} /\ c \notin held
    <3>1. IsFiniteSet(Range(ssls)) /\ Range(ssls) \subseteq Nat
      BY FiniteRange DEF NetInv, NetTypes, CallRecord
    <3>2. IsFiniteSet(held \cup Range(ssls)) /\ held \cup Range(ssls) \in SUBSET Nat
      BY <3>1, FS_Union DEF NetInv, NetTypes, CallRecord
    <3> QED BY <3>2, UnusedIsUnused
  <2>3. Takes(st) = {"ctx"}
    BY <1>6 DEF Takes
  <2> HIDE DEF c
  <2>4. /\ call'.fn = fn /\ call'.at = k + 1 /\ call'.ctx = c
        /\ UNCHANGED <<call.fd, call.ssl, call.slot>>
    BY <2>1 DEF NetInv, NetTypes, CallRecord, fn, k
  <2>5. NetTypes'
    <3>1. IsFiniteSet(held')
      BY <2>1, FS_AddElement DEF NetInv, NetTypes, CallRecord
    <3> QED BY <1>4, <2>1, <2>2, <2>4, <3>1 DEF NetInv, NetTypes, CallRecord, Stages, fn, k
  <2>6. Owners'
    BY <1>2, <1>3, <2>1, <2>2, <2>3, <2>4
       DEF NetInv, Owners, CallHas, Active, Inactive, PoolFds, PoolSsls, PoolCtxs
  <2> QED BY <2>5, <2>6 DEF NetInv
<1>7. CASE st = "SSL_new"
  <2> DEFINE s == Unused(DOMAIN ssls)
  <2>1. /\ call' = [call EXCEPT !.ssl = s, !.at = @ + 1]
        /\ ssls' = [i \in DOMAIN ssls \cup {s} |-> IF i = s THEN call.ctx ELSE ssls[i]]
        /\ inbox' = [i \in DOMAIN inbox \cup {s} |-> IF i = s THEN [wire |-> 0, pending |-> 0] ELSE inbox[i]]
        /\ UNCHANGED <<open, held>>
    BY <1>7 DEF Taking
  <2>2. s \in Nat \ {0} /\ s \notin DOMAIN ssls
    BY UnusedIsUnused DEF NetInv, NetTypes, CallRecord
  <2>3. Takes(st) = {"ssl"}
    BY <1>7 DEF Takes
  <2> HIDE DEF s
  <2>4. /\ call'.fn = fn /\ call'.at = k + 1 /\ call'.ssl = s
        /\ UNCHANGED <<call.fd, call.ctx, call.slot>>
    BY <2>1 DEF NetInv, NetTypes, CallRecord, fn, k
  <2>5. NetTypes'
    <3>1. DOMAIN ssls' = DOMAIN ssls \cup {s}
      BY <2>1
    <3>2. IsFiniteSet(DOMAIN ssls')
      <4>1. IsFiniteSet(DOMAIN ssls \cup {s})
        BY FS_AddElement DEF NetInv, NetTypes, CallRecord
      <4> QED BY <3>1, <4>1
    <3>3. ssls' \in [DOMAIN ssls' -> Nat] /\ inbox' \in [DOMAIN ssls' -> [wire : Nat, pending : Nat]]
      BY <2>1, <3>1 DEF NetInv, NetTypes, CallRecord
    <3> QED BY <1>4, <2>1, <2>2, <2>4, <3>1, <3>2, <3>3 DEF NetInv, NetTypes, CallRecord, Stages, fn, k
  <2>6. Owners'
    BY <1>2, <1>3, <2>1, <2>2, <2>3, <2>4
       DEF NetInv, Owners, CallHas, Active, Inactive, PoolFds, PoolSsls, PoolCtxs
  <2> QED BY <2>5, <2>6 DEF NetInv
<1>8. CASE st = "tls_alloc"
  <2>1. Inactive # {} /\ call' = [call EXCEPT !.slot = Least(Inactive), !.at = @ + 1]
        /\ UNCHANGED <<open, held, ssls, inbox>>
    BY <1>8 DEF Taking
  <2>2. Least(Inactive) \in Inactive /\ Inactive \subseteq Nat
    <3>1. Inactive \in SUBSET Nat
      BY NetAssumption DEF Inactive, Slots
    <3> QED BY <2>1, <3>1, LeastIsMember
  <2>3. Takes(st) = {"slot"}
    BY <1>8 DEF Takes
  <2>4. /\ call'.fn = fn /\ call'.at = k + 1 /\ call'.slot = Least(Inactive)
        /\ UNCHANGED <<call.fd, call.ssl, call.ctx>>
    BY <2>1 DEF NetInv, NetTypes, CallRecord, fn, k
  <2>5. NetTypes'
    BY <1>4, <2>1, <2>2, <2>4 DEF NetInv, NetTypes, CallRecord, Stages, fn, k
  <2>6. Owners'
    BY <1>2, <1>3, <2>1, <2>2, <2>3, <2>4
       DEF NetInv, Owners, CallHas, Active, Inactive, PoolFds, PoolSsls, PoolCtxs
  <2> QED BY <2>5, <2>6 DEF NetInv
<1>9. CASE st \notin {"socket", "accept", "SSL_CTX_new", "SSL_new", "tls_alloc"}
  <2>1. call' = [call EXCEPT !.at = @ + 1] /\ UNCHANGED <<open, held, ssls, inbox>>
    BY <1>9 DEF Taking
  <2>2. Takes(st) = {}
    BY <1>9 DEF Takes
  <2>3. /\ call'.fn = fn /\ call'.at = k + 1
        /\ UNCHANGED <<call.fd, call.ssl, call.ctx, call.slot>>
    BY <2>1 DEF NetInv, NetTypes, CallRecord, fn, k
  <2>4. NetTypes'
    BY <1>4, <2>1, <2>3 DEF NetInv, NetTypes, CallRecord, Stages, fn, k
  <2>5. Owners'
    BY <1>2, <1>3, <2>1, <2>2, <2>3
       DEF NetInv, Owners, CallHas, Active, Inactive, PoolFds, PoolSsls, PoolCtxs
  <2> QED BY <2>4, <2>5 DEF NetInv
<1> QED BY <1>5, <1>6, <1>7, <1>8, <1>9

\* A call that gives back all it has leaves what the script and the slots have.
LEMMA ReleasingKeepsNetInv ==
    ASSUME NetInv, NEW what, what = Taken \ {"slot"}, Releasing(what), call' = Idle,
           UNCHANGED <<tls_pool, mine>>
    PROVE  NetInv'
<1>1. Taken' = {} /\ call'.fn = "idle" /\ call'.ssl = 0
  BY IdleCall DEF Taken
<1>2. open' = open \ CallHas("fd", call.fd) /\ held' = held \ CallHas("ctx", call.ctx)
  BY DEF Releasing, CallHas
<1>3. DOMAIN ssls' = DOMAIN ssls \ CallHas("ssl", call.ssl)
      /\ ssls' \in [DOMAIN ssls' -> Nat] /\ inbox' \in [DOMAIN ssls' -> [wire : Nat, pending : Nat]]
  BY DEF Releasing, CallHas, NetInv, NetTypes, CallRecord
<1>4. NetTypes'
  <2>1. IsFiniteSet(held')
    BY <1>2, FS_Subset DEF NetInv, NetTypes, CallRecord
  <2>2. IsFiniteSet(DOMAIN ssls \ CallHas("ssl", call.ssl))
    BY FS_Subset DEF NetInv, NetTypes, CallRecord
  <2>3. call' \in CallRecord
    BY IdleCall
  <2> QED BY <1>1, <1>2, <1>3, <2>1, <2>2, <2>3 DEF NetInv, NetTypes, CallRecord
<1>5. Owners'
  BY <1>1, <1>2, <1>3 DEF NetInv, Owners, CallHas, Active, Inactive, PoolFds, PoolSsls, PoolCtxs
<1> QED BY <1>4, <1>5 DEF NetInv

\* The stage that fails releases what the call has.
LEMMA FailsKeepsNetInv ==
    ASSUME NetInv, NEW st, fails(st)
    PROVE  NetInv'
<1>1. /\ call.fn \in Natives /\ call.at \in 1..Len(Stages) /\ call.fn # "idle"
      /\ st = Stages[call.at][1] /\ st # "SSL_new"
  BY StagesOrderly DEF fails, Busy, Stages, NetInv, NetTypes, CallRecord, Orderly, MayFail
<1>2. Stages[call.at][2] = Taken \ {"slot"}
  BY <1>1, StagesOrderly DEF Orderly, Taken, Stages
<1> QED BY <1>2, ReleasingKeepsNetInv DEF fails

\* What the call has goes to the script or into the slot.
LEMMA ReturnsKeepsNetInv == NetInv /\ returns => NetInv'
<1> SUFFICES ASSUME NetInv, returns PROVE NetInv'
  OBVIOUS
<1> USE DEF returns
<1>1. call.fn \in Natives \ {"http", "https"} /\ call.fn # "idle" /\ Taken = Obtained(call.fn)
  <2>1. Len(Stages) \in Nat /\ call.fn # "idle"
    BY StagesOrderly DEF Stages, Orderly, Natives, net_dispatch
  <2>2. call.at = Len(Stages) + 1
    BY <2>1 DEF Busy, NetInv, NetTypes, CallRecord
  <2> QED BY <2>1, <2>2, StagesOrderly DEF Orderly, Taken, Stages
<1>2. Taken' = {} /\ call'.fn = "idle" /\ call'.ssl = 0
      /\ call' \in CallRecord
  BY IdleCall DEF Taken
<1>3. CASE call.fn \in {"tls_listen", "tls_accept", "tls_connect"}
  <2> DEFINE s == call.slot
             x == IF call.fn = "tls_accept" THEN 0 ELSE call.ctx
  <2>1. /\ Taken = Obtained(call.fn) /\ "slot" \in Taken /\ "fd" \in Taken /\ s \in Inactive
        /\ "ctx" \in Taken <=> call.fn # "tls_accept"
    BY <1>1, <1>3 DEF Obtained, NetInv, Owners
  <2>2. tls_pool' = [tls_pool EXCEPT ![s] = Conn(call.fd, call.ssl, x)] /\ UNCHANGED mine
    BY <1>3
  <2>3. /\ tls_pool' \in [Slots -> [active : BOOLEAN, fd : Nat, ssl : Nat, ctx : Nat]]
        /\ tls_pool'[s].active /\ tls_pool'[s].fd = call.fd /\ tls_pool'[s].ssl = call.ssl
        /\ tls_pool'[s].ctx = x
        /\ \A i \in Slots \ {s} : tls_pool'[i] = tls_pool[i]
    BY <2>1, <2>2 DEF Conn, NetInv, NetTypes, CallRecord, Inactive
  <2>4. Active' = Active \cup {s} /\ s \notin Active /\ Inactive' = Inactive \ {s}
    BY <2>1, <2>3 DEF Active, Inactive
  <2>5. \A i \in Active : i # s /\ i \in Slots /\ tls_pool'[i] = tls_pool[i]
    BY <2>3, <2>4 DEF Active
  <2>6. PoolFds' = PoolFds \cup {call.fd}
    BY <2>3, <2>4, <2>5 DEF PoolFds
  <2>7. PoolSsls' = PoolSsls \cup ({call.ssl} \ {0})
    BY <2>3, <2>4, <2>5 DEF PoolSsls
  <2>8. PoolCtxs' = PoolCtxs \cup ({x} \ {0})
    BY <2>3, <2>4, <2>5 DEF PoolCtxs
  <2>9. "ssl" \in Taken => call.ssl # 0 /\ call.ssl \notin PoolSsls
    BY DEF NetInv, NetTypes, CallRecord, Owners, CallHas
  <2>10. "ctx" \in Taken => call.ctx # 0 /\ call.ctx \notin PoolCtxs
    BY DEF NetInv, NetTypes, CallRecord, Owners, CallHas
  <2>11. NetTypes'
    BY <1>2, <2>3 DEF NetInv, NetTypes, CallRecord
  <2>12. \A i \in Active :
            /\ tls_pool[i].fd # call.fd
            /\ tls_pool[i].ssl = call.ssl => call.ssl = 0
            /\ tls_pool[i].ctx = x => x = 0
    BY <2>1, <2>9, <2>10 DEF NetInv, Owners, CallHas, PoolFds, PoolSsls, PoolCtxs
  <2>13. Owners'
    <3>1. \A i, j \in Active' : i # j =>
             /\ tls_pool'[i].fd # tls_pool'[j].fd
             /\ tls_pool'[i].ssl = tls_pool'[j].ssl => tls_pool'[i].ssl = 0
             /\ tls_pool'[i].ctx = tls_pool'[j].ctx => tls_pool'[i].ctx = 0
      BY <2>3, <2>4, <2>5, <2>12 DEF NetInv, Owners
    <3>2. \A i \in Inactive' : tls_pool'[i].ssl = 0
      BY <2>3, <2>4 DEF NetInv, Owners, Inactive
    <3>3. open' = mine' \cup PoolFds' /\ mine' \cap PoolFds' = {}
      BY <2>1, <2>2, <2>6 DEF NetInv, Owners, CallHas
    <3>4. DOMAIN ssls' = PoolSsls'
      BY <2>7, <2>9 DEF NetInv, Owners, CallHas
    <3>5. held' = PoolCtxs'
      BY <2>1, <2>8, <2>10 DEF NetInv, Owners, CallHas
    <3> QED BY <1>2, <3>1, <3>2, <3>3, <3>4, <3>5 DEF Owners, CallHas
  <2> QED BY <2>11, <2>13 DEF NetInv
<1>4. CASE call.fn \notin {"tls_listen", "tls_accept", "tls_connect"}
  <2>1. Taken = {"fd"}
    BY <1>1, <1>4 DEF Obtained, Natives, net_dispatch
  <2>2. mine' = mine \cup {call.fd} /\ UNCHANGED tls_pool
    BY <1>4
  <2>3. NetTypes'
    BY <1>2, <2>2 DEF NetInv, NetTypes, CallRecord
  <2>4. Owners'
    BY <1>2, <2>1, <2>2 DEF NetInv, Owners, CallHas, Active, Inactive, PoolFds, PoolSsls, PoolCtxs
  <2> QED BY <2>3, <2>4 DEF NetInv
<1> QED BY <1>3, <1>4

----------------------------------------------------------------------------
(* Exchanges and connections in use                                        *)

\* What was sent and received is not among what a call takes.
LEMMA CountingCall ==
    ASSUME NEW c \in CallRecord, NEW n \in Nat, NEW x,
           x = [c EXCEPT !.sent = @ + n] \/ x = [c EXCEPT !.got = @ + n]
    PROVE  /\ x \in CallRecord /\ x.fn = c.fn /\ x.at = c.at
           /\ x.fd = c.fd /\ x.ssl = c.ssl /\ x.ctx = c.ctx /\ x.slot = c.slot
<1>1. CASE x = [c EXCEPT !.sent = @ + n]
  BY <1>1 DEF CallRecord
<1>2. CASE x = [c EXCEPT !.got = @ + n]
  BY <1>2 DEF CallRecord
<1> QED BY <1>1, <1>2

\* Sending and receiving take nothing.
LEMMA ExchangeKeepsNetInv ==
    ASSUME NetInv, \/ \E n \in 1..Request : send(n)
                   \/ \E n \in 1..HTTP_RBUF : recv(n)
    PROVE  NetInv'
<1>1. UNCHANGED <<open, held, ssls, inbox, tls_pool, mine>>
  BY DEF send, recv
<1>2. /\ call' \in CallRecord
      /\ UNCHANGED <<call.fn, call.at, call.fd, call.ssl, call.ctx, call.slot>>
  <2>1. \E n \in Nat : call' = [call EXCEPT !.sent = @ + n] \/ call' = [call EXCEPT !.got = @ + n]
    BY NetAssumption DEF send, recv
  <2>2. call \in CallRecord
    BY DEF NetInv, NetTypes
  <2> QED BY <2>1, <2>2, CountingCall
<1>3. Taken' = Taken /\ Stages' = Stages
  BY <1>2 DEF Taken, Stages
<1>4. NetTypes'
  BY <1>1, <1>2, <1>3 DEF NetInv, NetTypes, CallRecord
<1>5. Owners'
  BY <1>1, <1>2, <1>3 DEF NetInv, Owners, CallHas, Active, Inactive, PoolFds, PoolSsls, PoolCtxs
<1> QED BY <1>4, <1>5 DEF NetInv

\* However an exchange ends, the connection it had is closed.
LEMMA EndsKeepsNetInv ==
    ASSUME NetInv, Exchanging, NEW answer, Ends(answer)
    PROVE  NetInv'
<1>1. call.fn \in {"http", "https"} /\ call.fn \in Natives /\ call.fn # "idle"
  BY DEF Exchanging, Natives, net_dispatch
<1>2. call.at = Len(Stages) + 1
  BY <1>1, StagesOrderly DEF Exchanging, Busy, Stages, Orderly, NetInv, NetTypes, CallRecord
<1>3. Taken = Obtained(call.fn)
  BY <1>1, <1>2, StagesOrderly DEF Orderly, Taken, Stages
<1>4. Connection = Taken \ {"slot"}
  BY <1>1, <1>3 DEF Connection, Plain, Obtained
<1> QED BY <1>4, ReleasingKeepsNetInv DEF Ends

\* The script closes what it was given.
LEMMA CloseKeepsNetInv ==
    ASSUME NetInv, NEW fd, net_close(fd)
    PROVE  NetInv'
<1>1. Taken = {} /\ Taken' = {} /\ UNCHANGED <<held, ssls, inbox, tls_pool, call>>
  BY DEF net_close, Taken
<1>2. NetTypes'
  BY <1>1 DEF net_close, NetInv, NetTypes, CallRecord, Stages
<1>3. Owners'
  BY <1>1 DEF net_close, NetInv, Owners, CallHas, Active, Inactive, PoolFds, PoolSsls, PoolCtxs
<1> QED BY <1>2, <1>3 DEF NetInv

\* What a slot had is freed with it, and no other slot had it.
LEMMA TlsCloseKeepsNetInv ==
    ASSUME NetInv, NEW id \in Slots, tls_close(id)
    PROVE  NetInv'
<1> DEFINE c == tls_pool[id]
<1>1. /\ call.fn = "idle" /\ id \in Active /\ UNCHANGED <<mine, call>> /\ Taken = {} /\ Taken' = {}
      /\ open' = open \ {c.fd} /\ held' = held \ {c.ctx}
      /\ ssls' = [i \in DOMAIN ssls \ {c.ssl} |-> ssls[i]]
      /\ inbox' = [i \in DOMAIN inbox \ {c.ssl} |-> inbox[i]]
      /\ tls_pool' = [tls_pool EXCEPT ![id] = Free]
  BY DEF tls_close, Cleared, Taken, Active
<1>2. /\ tls_pool' \in [Slots -> [active : BOOLEAN, fd : Nat, ssl : Nat, ctx : Nat]]
      /\ ~tls_pool'[id].active /\ tls_pool'[id].ssl = 0
      /\ \A i \in Slots \ {id} : tls_pool'[i] = tls_pool[i]
  BY <1>1 DEF Free, NetInv, NetTypes, CallRecord
<1>3. /\ DOMAIN ssls' = DOMAIN ssls \ {c.ssl} /\ ssls' \in [DOMAIN ssls' -> Nat]
      /\ inbox' \in [DOMAIN ssls' -> [wire : Nat, pending : Nat]]
  BY <1>1 DEF NetInv, NetTypes, CallRecord
<1>4. IsFiniteSet(held') /\ IsFiniteSet(DOMAIN ssls \ {c.ssl})
  BY <1>1, FS_Subset DEF NetInv, NetTypes, CallRecord
<1>5. NetTypes'
  BY <1>1, <1>2, <1>3, <1>4 DEF NetInv, NetTypes, CallRecord
<1>6. Active' = Active \ {id} /\ Inactive' = Inactive \cup {id}
  BY <1>1, <1>2 DEF Active, Inactive
<1>7. \A i \in Active' : i # id /\ i \in Active /\ tls_pool'[i] = tls_pool[i]
  BY <1>2, <1>6 DEF Active
<1>8. PoolFds' = PoolFds \ {c.fd}
  BY <1>1, <1>6, <1>7 DEF PoolFds, NetInv, Owners
<1>9. PoolSsls' = PoolSsls \ {c.ssl}
  BY <1>1, <1>6, <1>7 DEF PoolSsls, NetInv, Owners
<1>10. PoolCtxs' = PoolCtxs \ {c.ctx}
  BY <1>1, <1>6, <1>7 DEF PoolCtxs, NetInv, Owners
<1>11. \A i \in Inactive' : tls_pool'[i].ssl = 0
  BY <1>2, <1>6 DEF NetInv, Owners, Inactive
<1>12. c.fd \in PoolFds
  BY <1>1 DEF PoolFds
<1> HIDE DEF c
<1>13. Owners'
  BY <1>1, <1>3, <1>6, <1>7, <1>8, <1>9, <1>10, <1>11, <1>12 DEF NetInv, Owners, CallHas
<1> QED BY <1>5, <1>13 DEF NetInv

\* Data that comes in or is read changes what waits in a connection.
LEMMA DataKeepsNetInv ==
    ASSUME NetInv, NEW id \in Slots, NEW n \in 1..MaxRecord, record_arrives(id, n) \/ tls_recv(id, n)
    PROVE  NetInv'
<1> DEFINE s == tls_pool[id].ssl
<1>1. s \in DOMAIN ssls
  <2>1. s # 0
    BY DEF record_arrives, tls_recv
  <2>2. id \in Active
    <3>1. \A i \in Inactive : tls_pool[i].ssl = 0
      BY DEF NetInv, Owners
    <3> QED BY <2>1, <3>1 DEF Active, Inactive
  <2>3. s \in PoolSsls
    BY <2>1, <2>2 DEF PoolSsls
  <2>4. PoolSsls \subseteq DOMAIN ssls
    BY DEF NetInv, Owners
  <2> QED BY <2>3, <2>4
<1>2. inbox \in [DOMAIN ssls -> [wire : Nat, pending : Nat]] /\ n \in Nat
  <2>1. inbox \in [DOMAIN ssls -> [wire : Nat, pending : Nat]]
    BY DEF NetInv, NetTypes
  <2>2. n \in Nat
    BY NetAssumption
  <2> QED BY <2>1, <2>2
<1>3. inbox' \in [DOMAIN ssls -> [wire : Nat, pending : Nat]]
  <2>1. CASE record_arrives(id, n)
    BY <1>1, <1>2, <2>1 DEF record_arrives
  <2>2. CASE tls_recv(id, n)
    BY <1>1, <1>2, <2>2 DEF tls_recv
  <2> QED BY <2>1, <2>2
<1>4. UNCHANGED <<open, held, ssls, tls_pool, mine, call>>
  BY DEF record_arrives, tls_recv
<1>5. Taken' = Taken
  BY <1>4 DEF Taken
<1>6. NetTypes'
  BY <1>3, <1>4 DEF NetInv, NetTypes, CallRecord, Stages
<1>7. Owners'
  BY <1>4, <1>5 DEF NetInv, Owners, CallHas, Active, Inactive, PoolFds, PoolSsls, PoolCtxs
<1> QED BY <1>6, <1>7 DEF NetInv

\* Every step of the script, of a native and of its peer.
LEMMA NetInvStep == NetInv /\ [Next]_vars => NetInv'
<1> SUFFICES ASSUME NetInv, [Next]_vars PROVE NetInv'
  OBVIOUS
<1>1. ASSUME UNCHANGED <<open, held, ssls, inbox, tls_pool, mine, call>> PROVE NetInv'
  <2>1. Taken' = Taken
    BY <1>1 DEF Taken
  <2>2. NetTypes'
    BY <1>1 DEF NetInv, NetTypes, CallRecord, Stages
  <2>3. Owners'
    BY <1>1, <2>1 DEF NetInv, Owners, CallHas, Active, Inactive, PoolFds, PoolSsls, PoolCtxs
  <2> QED BY <2>2, <2>3 DEF NetInv
<1>2. CASE Script
  <2>1. ASSUME NEW f \in Natives \ {"tls_accept"}, begin(f) PROVE NetInv'
    <3>1. call' \in CallRecord /\ call'.fn = f /\ call'.at = 1 /\ call'.ssl = 0
      BY <2>1, BegunCall DEF begin
    <3> QED BY <2>1, <3>1, BeginKeepsNetInv DEF begin
  <2>2. ASSUME NEW i \in Slots, begin_accept(i) PROVE NetInv'
    <3>1. tls_pool[i].ctx \in Nat /\ "tls_accept" \in Natives
      BY DEF NetInv, NetTypes, CallRecord, Natives, net_dispatch
    <3>2. call' \in CallRecord /\ call'.fn = "tls_accept" /\ call'.at = 1 /\ call'.ssl = 0
      <4>1. call' = [Idle EXCEPT !.fn = "tls_accept", !.ctx = tls_pool[i].ctx]
        BY <2>2 DEF begin_accept
      <4> QED BY <3>1, <4>1, BegunCall, Zenon
    <3> QED BY <2>2, <3>1, <3>2, BeginKeepsNetInv DEF begin_accept
  <2> QED BY <1>2, <2>1, <2>2, TlsCloseKeepsNetInv, DataKeepsNetInv, CloseKeepsNetInv DEF Script
<1>3. CASE Native
  <2>1. CASE connected
    BY <1>1, <2>1 DEF connected
  <2>2. CASE send_fails \/ recv_full \/ recv_eof \/ recv_timeout
    BY <2>2, EndsKeepsNetInv DEF send_fails, recv_full, recv_eof, recv_timeout, Sending, Receiving
  <2> QED BY <1>3, <2>1, <2>2, SucceedsKeepsNetInv, FailsKeepsNetInv, ReturnsKeepsNetInv,
             ExchangeKeepsNetInv DEF Native
<1>4. CASE Peer
  <2>1. CASE server_sends \/ server_closes
    BY <1>1, <2>1 DEF server_sends, server_closes
  <2>2. CASE recv_error
    BY <2>2, EndsKeepsNetInv DEF recv_error, Receiving
  <2> QED BY <1>4, <2>1, <2>2, SucceedsKeepsNetInv, FailsKeepsNetInv, DataKeepsNetInv DEF Peer
<1>5. CASE UNCHANGED vars
  BY <1>1, <1>5 DEF vars
<1> QED BY <1>2, <1>3, <1>4, <1>5 DEF Next

----------------------------------------------------------------------------
(* Theorems                                                                *)

\* No failure at any stage of any native leaves a descriptor, an SSL or a context behind, and
\* none frees one that the script or a slot has (the error paths of native_net.c).
THEOREM NothingIsLeaked == Spec => []NothingLeaks
<1>1. NetInv => NothingLeaks
  BY DEF NetInv, Owners, NothingLeaks, CallHas, Taken
<1> QED BY InitNetInv, NetInvStep, <1>1, PTL DEF Spec

\* The slots' connections are disjoint from one another and from the script's descriptors, also
\* while a call runs; tls_accept, whose context is its listener's, is no exception.
THEOREM SlotsAreDisjoint == Spec => []SlotsOwnTheirs
<1>1. NetInv => SlotsOwnTheirs
  <2> SUFFICES ASSUME NetInv PROVE SlotsOwnTheirs
    OBVIOUS
  <2>1. ASSUME Busy, NEW i \in 1..Len(Stages), i < call.at, Stages[i][1] = "tls_alloc"
        PROVE  ~tls_pool[call.slot].active
    <3>1. call.fn # "idle" /\ i \in 1..call.at - 1
      BY <2>1, StagesOrderly DEF Busy, NetInv, NetTypes, CallRecord, Stages, Orderly
    <3>2. "slot" \in Taken
      BY <2>1, <3>1 DEF Taken, TakenBefore, Takes, Stages
    <3> QED BY <3>2 DEF NetInv, Owners, Inactive
  <2>2. PoolFds \cap mine = {} /\ PoolFds \subseteq open
    BY DEF NetInv, Owners
  <2>3. \A i, j \in Active : i # j =>
           /\ tls_pool[i].fd # tls_pool[j].fd
           /\ tls_pool[i].ssl = tls_pool[j].ssl => tls_pool[i].ssl = 0
           /\ tls_pool[i].ctx = tls_pool[j].ctx => tls_pool[i].ctx = 0
    BY DEF NetInv, Owners
  <2>4. \A i \in 1..Len(IF Busy THEN Stages ELSE <<>>) :
           i < call.at /\ Stages[i][1] = "tls_alloc" => ~tls_pool[call.slot].active
    BY <2>1
  <2> QED BY <2>2, <2>3, <2>4 DEF SlotsOwnTheirs
<1> QED BY InitNetInv, NetInvStep, <1>1, PTL DEF Spec

\* tls_recv finds whatever has come: of a record that was read in part, the rest is pending in
\* the SSL, where the descriptor no longer shows it (SSL_pending).
THEOREM NoDataMissed == Spec => []NothingMissed
<1>1. Init => NothingMissed
  BY DEF Init, NothingMissed
<1>2. NetInv /\ NothingMissed /\ [Next]_vars => NothingMissed'
  <2> SUFFICES ASSUME NetInv, NothingMissed, [Next]_vars PROVE NothingMissed'
    OBVIOUS
  <2> USE DEF NothingMissed
  <2>1. ASSUME NEW id \in Slots, NEW n \in 1..MaxRecord, tls_recv(id, n) PROVE ~missed'
    <3>1. tls_pool[id].ssl \in DOMAIN ssls
      BY <2>1 DEF tls_recv, NetInv, Owners, Inactive, Active, PoolSsls
    <3>2. inbox[tls_pool[id].ssl].wire \in Nat /\ inbox[tls_pool[id].ssl].pending \in Nat
      BY <3>1 DEF NetInv, NetTypes, CallRecord
    <3> DEFINE box == inbox[tls_pool[id].ssl]
    <3>3. Readable(box) => missed' = FALSE
      BY <2>1 DEF tls_recv
    <3>4. ~Readable(box) => missed' = (box.wire + box.pending > 0)
      BY <2>1 DEF tls_recv
    <3>5. ~Readable(box) => ~(box.wire + box.pending > 0)
      BY <3>2 DEF Readable
    <3> QED BY <3>3, <3>4, <3>5
  <2>2. CASE Script
    BY <2>1, <2>2, Zenon DEF Script, begin, begin_accept, tls_close, net_close
  <2>3. CASE Native
    BY <2>3 DEF Native, succeeds, fails, returns, connected, send, recv, send_fails, recv_full, recv_eof,
       recv_timeout, Ends
  <2>4. CASE Peer
    BY <2>4 DEF Peer, succeeds, fails, server_sends, server_closes, recv_error, Ends, record_arrives
  <2>5. CASE UNCHANGED vars
    BY <2>5 DEF vars
  <2> QED BY <2>2, <2>3, <2>4, <2>5 DEF Next
<1> QED BY InitNetInv, NetInvStep, <1>1, <1>2, PTL DEF Spec

----------------------------------------------------------------------------
(* Answers                                                                 *)

\* What answers are made of, and what stands for the answer of no server.
Token == STRING \cup {"none"}
Text == Seq(Token)

\* The first place where something of T is.
LEMMA FirstIsFirst ==
    ASSUME NEW buf \in Text, NEW T, Has(buf, T)
    PROVE  /\ FirstOf(buf, T) \in 1..Len(buf) /\ buf[FirstOf(buf, T)] \in T
           /\ \A i \in 1..Len(buf) : buf[i] \in T => FirstOf(buf, T) <= i
<1> DEFINE I == {i \in 1..Len(buf) : buf[i] \in T}
<1>1. I \in SUBSET Nat /\ I # {}
  BY DEF Has, Text
<1>2. FirstOf(buf, T) = Min(I)
  BY <1>1 DEF FirstOf, SelectInSeq
<1>3. Min(I) \in I /\ \A i \in I : Min(I) <= i
  <2> HIDE DEF I
  <2> QED BY <1>1, LeastExists DEF Min
<1> QED BY <1>2, <1>3

\* What comes first in the beginning of a text comes first in the text, and what the text has but
\* its beginning has not comes later.
LEMMA FirstOfPrefix ==
    ASSUME NEW buf \in Text, NEW m \in 0..Len(buf), NEW T, NEW q \in Text,
           Len(q) = m, \A i \in 1..m : q[i] = buf[i]
    PROVE  /\ Has(q, T) => Has(buf, T) /\ FirstOf(q, T) = FirstOf(buf, T) /\ FirstOf(q, T) \in 1..m
           /\ Has(buf, T) /\ ~Has(q, T) => FirstOf(buf, T) \in (m + 1)..Len(buf)
<1>n. PICK n \in Nat : n = Len(buf)
  BY DEF Text
<1>m. m \in Nat /\ m <= n
  BY <1>n
<1>1. \A i \in 1..m : i \in 1..n
  BY <1>m
<1>2. ASSUME Has(q, T) PROVE Has(buf, T) /\ FirstOf(q, T) = FirstOf(buf, T) /\ FirstOf(q, T) \in 1..m
  <2>1. PICK k \in 1..m : k = FirstOf(q, T) /\ q[k] \in T /\ \A i \in 1..m : q[i] \in T => k <= i
    BY <1>2, FirstIsFirst
  <2>2. k \in 1..n /\ buf[k] \in T
    BY <1>1, <2>1
  <2>3. Has(buf, T)
    BY <1>n, <2>2 DEF Has
  <2>4. PICK l \in 1..n : l = FirstOf(buf, T) /\ buf[l] \in T /\ \A i \in 1..n : buf[i] \in T => l <= i
    BY <1>n, <2>3, FirstIsFirst
  <2>5. l <= k
    BY <2>2, <2>4
  <2>6. l \in 1..m /\ q[l] \in T
    BY <1>m, <2>4, <2>5
  <2>7. k <= l
    BY <2>1, <2>6
  <2>8. k = l
    BY <2>5, <2>7
  <2> QED BY <2>1, <2>3, <2>4, <2>8
<1>3. ASSUME Has(buf, T), ~Has(q, T) PROVE FirstOf(buf, T) \in (m + 1)..n
  <2>1. PICK l \in 1..n : l = FirstOf(buf, T) /\ buf[l] \in T
    BY <1>n, <1>3, FirstIsFirst
  <2>2. ~(l \in 1..m)
    <3> SUFFICES ASSUME l \in 1..m PROVE Has(q, T)
      BY <1>3
    <3> q[l] \in T
      BY <2>1
    <3> QED BY DEF Has
  <2> QED BY <1>m, <2>1, <2>2
<1> QED BY <1>n, <1>2, <1>3

\* What a piece of a text has.
Size(a, b) == IF a <= b THEN b - a + 1 ELSE 0
Piece(p, buf, a, b) ==
    /\ p \in Text
    /\ Len(p) = Size(a, b)
    /\ \A i \in 1..b - a + 1 : p[i] = buf[a + i - 1]

\* SubSeq returns it.
LEMMA PieceFacts ==
    ASSUME NEW buf \in Text, NEW a \in Nat \ {0}, NEW b \in Nat, b <= Len(buf)
    PROVE  Piece(SubSeq(buf, a, b), buf, a, b)
<1>1. \A i \in 1..Len(buf) : buf[i] \in Token
  BY DEF Text
<1>2. \A i \in a..b : buf[i] \in Token
  BY <1>1
<1>3. /\ SubSeq(buf, a, b) \in Seq(Token)
      /\ Len(SubSeq(buf, a, b)) = IF a <= b THEN b - a + 1 ELSE 0
      /\ \A i \in 1..b - a + 1 : SubSeq(buf, a, b)[i] = buf[a + i - 1]
  BY <1>2, SubSeqProperties
<1> QED BY <1>3, Zenon DEF Text, Piece, Size

\* A piece is all there is to it.
LEMMA SamePiece ==
    ASSUME NEW buf, NEW a \in Nat \ {0}, NEW b \in Nat, NEW p, NEW q, Piece(p, buf, a, b), Piece(q, buf, a, b)
    PROVE  p = q
<1>0. Size(a, b) \in Nat
  BY DEF Size
<1>1. PICK n \in Nat : n = Size(a, b)
  BY <1>0, Zenon
<1>2. p \in Text /\ q \in Text /\ Len(p) = n /\ Len(q) = n
  BY <1>1, Zenon DEF Piece
<1>3. \A i \in 1..n : i \in 1..b - a + 1
  BY <1>1 DEF Size
<1>4. \A i \in 1..n : p[i] = q[i]
  BY <1>3, Zenon DEF Piece
<1>5. \A i \in 1..Len(p) : p[i] = q[i]
  BY <1>2, <1>4, Zenon
<1> QED BY <1>2, <1>5, SeqEqual DEF Text

\* The pieces of a text's beginning are pieces of the text.
LEMMA PieceOfPrefix ==
    ASSUME NEW buf \in Text, NEW m \in Nat, m <= Len(buf), NEW a \in Nat \ {0}, NEW b \in Nat, b <= m
    PROVE  SubSeq(SubSeq(buf, 1, m), a, b) = SubSeq(buf, a, b)
<1>1. PICK s \in Text : s = SubSeq(buf, 1, m) /\ Piece(s, buf, 1, m)
  <2>1. Piece(SubSeq(buf, 1, m), buf, 1, m)
    BY PieceFacts
  <2> QED BY <2>1, Zenon DEF Piece
<1>2. Len(s) = m /\ \A i \in 1..m : s[i] = buf[i]
  <2>1. Len(s) = IF 1 <= m THEN m - 1 + 1 ELSE 0
    BY <1>1 DEF Piece, Size
  <2>2. \A i \in 1..m - 1 + 1 : s[i] = buf[1 + i - 1]
    BY <1>1 DEF Piece
  <2> QED BY <2>1, <2>2
<1>3. PICK t : t = SubSeq(s, a, b) /\ Piece(t, s, a, b)
  BY <1>2, PieceFacts
<1>4. \A i \in 1..b - a + 1 : a + i - 1 \in 1..m
  OBVIOUS
<1>5. Piece(t, buf, a, b)
  BY <1>2, <1>3, <1>4, Zenon DEF Piece
<1>6. Len(buf) \in Nat
  BY DEF Text
<1>7. Piece(SubSeq(buf, a, b), buf, a, b)
  BY <1>6, PieceFacts
<1> QED BY <1>1, <1>3, <1>5, <1>7, SamePiece

\* Of the pieces of a text that begin at the same place, the shorter begins the longer.
LEMMA PieceIsPrefix ==
    ASSUME NEW buf \in Text, NEW a \in Nat \ {0}, NEW m \in Nat, NEW n \in Nat, m <= n, n <= Len(buf)
    PROVE  IsPrefix(SubSeq(buf, a, m), SubSeq(buf, a, n))
<1>0. Len(buf) \in Nat /\ m <= Len(buf)
  BY DEF Text
<1>1. PICK s \in Text : s = SubSeq(buf, a, m) /\ Piece(s, buf, a, m)
  <2>1. Piece(SubSeq(buf, a, m), buf, a, m)
    BY <1>0, PieceFacts
  <2> QED BY <2>1, Zenon DEF Piece
<1>2. PICK t \in Text : t = SubSeq(buf, a, n) /\ Piece(t, buf, a, n)
  <2>1. Piece(SubSeq(buf, a, n), buf, a, n)
    BY PieceFacts
  <2> QED BY <2>1, Zenon DEF Piece
<1>s. Size(a, m) \in Nat /\ Size(a, n) \in Nat
  BY DEF Size
<1>3. PICK k \in Nat : k = Size(a, m)
  BY <1>s, Zenon
<1>4. PICK l \in Nat : l = Size(a, n)
  BY <1>s, Zenon
<1>5. Len(s) = k /\ Len(t) = l
  BY <1>1, <1>2, <1>3, <1>4, Zenon DEF Piece
<1>6. k <= l /\ \A i \in 1..k : i \in 1..m - a + 1 /\ i \in 1..n - a + 1
  BY <1>3, <1>4 DEF Size
<1>7. \A i \in 1..k : s[i] = t[i]
  BY <1>1, <1>2, <1>6, Zenon DEF Piece
<1>8. SubSeq(s, 1, k) = s
  BY <1>5, SubSeqFull DEF Text
<1>9. PICK u : u = SubSeq(t, 1, k) /\ Piece(u, t, 1, k)
  <2>1. k <= Len(t)
    BY <1>5, <1>6
  <2>2. Piece(SubSeq(t, 1, k), t, 1, k)
    BY <2>1, PieceFacts
  <2> QED BY <2>2, Zenon
<1>10. Piece(s, t, 1, k)
  <2>1. k = Size(1, k)
    BY DEF Size
  <2>2. \A i \in 1..k - 1 + 1 : i \in 1..k /\ 1 + i - 1 = i
    OBVIOUS
  <2>3. \A i \in 1..k - 1 + 1 : s[i] = t[1 + i - 1]
    BY <1>7, <2>2, Zenon
  <2> QED BY <1>5, <2>1, <2>3, Zenon DEF Piece
<1>11. s = u
  <2>1. 1 \in Nat \ {0}
    OBVIOUS
  <2>2. Piece(u, t, 1, k)
    BY <1>9
  <2> QED BY <1>10, <2>1, <2>2, SamePiece, Zenon
<1>12. Len(s) <= Len(t) /\ SubSeq(s, 1, Len(s)) = SubSeq(t, 1, Len(s))
  BY <1>5, <1>6, <1>8, <1>9, <1>11
<1> QED BY <1>1, <1>2, <1>12 DEF IsPrefix

\* Every text begins with nothing.
LEMMA EmptyIsPrefix ==
    ASSUME NEW t \in Text
    PROVE  IsPrefix(<<>>, t)
<1>1. Len(<<>>) = 0 /\ Len(t) \in Nat
  BY DEF Text
<1>2. SubSeq(<<>>, 1, 0) = <<>> /\ SubSeq(t, 1, 0) = <<>>
  BY SubSeqEmpty
<1>3. Len(<<>>) <= Len(t) /\ SubSeq(<<>>, 1, Len(<<>>)) = SubSeq(t, 1, Len(<<>>))
  BY <1>1, <1>2
<1> QED BY <1>3 DEF IsPrefix

\* What is before and behind a mark in q is what is there in buf, or its beginning.
BeginsLike(q, buf) ==
    /\ \A T : Has(q, T) => Before(q, T) = Before(buf, T)
    /\ \A T : IsPrefix(Before(q, T), Before(buf, T))
    /\ \A T : IsPrefix(After(q, T), After(buf, T))

\* The status, the headers and the body of what was read of an answer.
LEMMA BeginningOfAnswer ==
    ASSUME NEW buf \in Text, NEW m \in Nat, m <= Len(buf)
    PROVE  BeginsLike(SubSeq(buf, 1, m), buf)
<1>q. PICK q : q = SubSeq(buf, 1, m)
  OBVIOUS
<1>n. PICK n \in Nat : n = Len(buf)
  BY DEF Text
<1>m. m <= n /\ m \in 0..Len(buf)
  BY <1>n
<1>1. Piece(q, buf, 1, m)
  BY <1>q, PieceFacts
<1>2. q \in Text /\ Len(q) = m /\ \A i \in 1..m : q[i] = buf[i]
  <2>1. Len(q) = IF 1 <= m THEN m - 1 + 1 ELSE 0
    BY <1>1 DEF Piece, Size
  <2>2. \A i \in 1..m - 1 + 1 : q[i] = buf[1 + i - 1]
    BY <1>1 DEF Piece
  <2>3. q \in Text
    BY <1>1 DEF Piece
  <2> QED BY <2>1, <2>2, <2>3
<1>3. SubSeq(buf, 1, n) = buf
  BY <1>n, SubSeqFull DEF Text
<1>4. ASSUME NEW T, Has(q, T)
      PROVE  Before(q, T) = Before(buf, T) /\ IsPrefix(Before(q, T), Before(buf, T))
             /\ IsPrefix(After(q, T), After(buf, T))
  <2>1. PICK k \in 1..m : k = FirstOf(q, T) /\ k = FirstOf(buf, T) /\ Has(buf, T)
    BY <1>m, <1>2, <1>4, FirstOfPrefix
  <2>2. k - 1 \in Nat /\ k - 1 <= m /\ k - 1 <= n /\ k + 1 \in Nat \ {0}
    BY <1>m
  <2>3. Before(q, T) = SubSeq(buf, 1, k - 1) /\ Before(buf, T) = SubSeq(buf, 1, k - 1)
    <3>1. SubSeq(SubSeq(buf, 1, m), 1, k - 1) = SubSeq(buf, 1, k - 1)
      BY <2>2, PieceOfPrefix
    <3> QED BY <1>q, <1>4, <2>1, <3>1, Zenon DEF Before
  <2>4. IsPrefix(SubSeq(buf, 1, k - 1), SubSeq(buf, 1, k - 1))
    BY <1>n, <2>2, PieceIsPrefix
  <2>5. After(q, T) = SubSeq(buf, k + 1, m) /\ After(buf, T) = SubSeq(buf, k + 1, n)
    <3>1. SubSeq(SubSeq(buf, 1, m), k + 1, m) = SubSeq(buf, k + 1, m)
      BY <2>2, PieceOfPrefix
    <3> QED BY <1>n, <1>q, <1>2, <1>4, <2>1, <3>1, Zenon DEF After
  <2>6. IsPrefix(SubSeq(buf, k + 1, m), SubSeq(buf, k + 1, n))
    BY <1>n, <1>m, <2>2, PieceIsPrefix
  <2> QED BY <2>3, <2>4, <2>5, <2>6, Zenon
<1>5. ASSUME NEW T, ~Has(q, T)
      PROVE  IsPrefix(Before(q, T), Before(buf, T)) /\ IsPrefix(After(q, T), After(buf, T))
  <2>1. Before(q, T) = SubSeq(buf, 1, m) /\ After(q, T) = <<>>
    BY <1>q, <1>5, Zenon DEF Before, After
  <2>2. \E j \in Nat : m <= j /\ j <= n /\ Before(buf, T) = SubSeq(buf, 1, j)
    <3>1. CASE Has(buf, T)
      <4>1. PICK l \in (m + 1)..n : l = FirstOf(buf, T)
        BY <1>n, <1>m, <1>2, <1>5, <3>1, FirstOfPrefix
      <4>2. Before(buf, T) = SubSeq(buf, 1, l - 1)
        BY <3>1, <4>1, Zenon DEF Before
      <4>3. l - 1 \in Nat /\ m <= l - 1 /\ l - 1 <= n
        BY <4>1
      <4> QED BY <4>2, <4>3
    <3>2. CASE ~Has(buf, T)
      BY <1>m, <1>3, <3>2 DEF Before
    <3> QED BY <3>1, <3>2
  <2>3. IsPrefix(Before(q, T), Before(buf, T))
    <3>1. PICK j \in Nat : m <= j /\ j <= n /\ Before(buf, T) = SubSeq(buf, 1, j)
      BY <2>2
    <3>2. IsPrefix(SubSeq(buf, 1, m), SubSeq(buf, 1, j))
      BY <1>n, <3>1, PieceIsPrefix
    <3> QED BY <2>1, <3>1, <3>2, Zenon
  <2>4. IsPrefix(<<>>, After(buf, T))
    <3>1. CASE Has(buf, T)
      <4>1. PICK l \in 1..n : l = FirstOf(buf, T)
        BY <1>n, <3>1, FirstIsFirst
      <4>2. After(buf, T) = SubSeq(buf, l + 1, n)
        BY <1>n, <3>1, <4>1, Zenon DEF After
      <4>3. l + 1 \in Nat \ {0}
        OBVIOUS
      <4>4. After(buf, T) \in Text
        BY <1>n, <4>2, <4>3, PieceFacts DEF Piece
      <4> QED BY <4>4, EmptyIsPrefix
    <3>2. CASE ~Has(buf, T)
      <4>1. After(buf, T) = <<>> /\ <<>> \in Text
        BY <3>2, EmptySeq DEF After, Text
      <4> QED BY <4>1, EmptyIsPrefix
    <3> QED BY <3>1, <3>2
  <2> QED BY <2>1, <2>3, <2>4
<1> QED BY <1>q, <1>4, <1>5, Zenon DEF BeginsLike

\* What was read was sent, and the buffer holds it; what was returned was read.
AnswerInv ==
    /\ peer \in [reply : Text, sent : Nat, gone : BOOLEAN]
    /\ call.got <= peer.sent /\ peer.sent <= Len(peer.reply)
    /\ AnswerIsTrue

\* There is no server yet.
LEMMA NoAnswerYet ==
    /\ NoPeer \in [reply : Text, sent : Nat, gone : BOOLEAN]
    /\ NoPeer.sent = 0 /\ NoPeer.sent <= Len(NoPeer.reply)
    /\ Idle.got = 0 /\ NoAnswer.ok = FALSE
<1>1. <<"none">> \in Text
  <2>1. "none" \in Token
    BY DEF Token
  <2> QED BY <2>1, SingleIsSeq, Zenon DEF Text
<1>2. Len(<<"none">>) = 1
  OBVIOUS
<1>3. /\ NoPeer \in [reply : Text, sent : Nat, gone : BOOLEAN]
      /\ NoPeer.sent = 0 /\ NoPeer.reply = <<"none">>
  BY <1>1 DEF NoPeer
<1>5. 0 <= 1
  OBVIOUS
<1>4. Idle.got = 0 /\ NoAnswer.ok = FALSE
  BY DEF Idle, NoAnswer
<1> QED BY <1>2, <1>3, <1>4, <1>5, Zenon

\* What is returned begins like what was sent, and is all of it if that was all.
LEMMA AnswerIsSent ==
    ASSUME NetInv, AnswerInv, NEW why, (Answer(why)).ok, Plain,
           why = "eof" => call.got = peer.sent /\ peer.gone
    PROVE  LET r == Answer(why) IN
           /\ r.status = Status(r.of)
           /\ IsPrefix(r.headers, Headers(r.of)) /\ IsPrefix(r.body, Body(r.of))
           /\ r.end = "eof" => r.gone /\ r.headers = Headers(r.of) /\ r.body = Body(r.of)
<1> DEFINE r == Answer(why)
<1>r. PICK reply \in Text : reply = peer.reply
  BY DEF AnswerInv
<1>m. PICK m \in Nat : m = call.got
  BY DEF NetInv, NetTypes, CallRecord
<1>n. PICK n \in Nat : n = peer.sent /\ n <= Len(reply)
  BY <1>r DEF AnswerInv, Text
<1>1. m <= n
  BY <1>m, <1>n DEF AnswerInv
<1>b. PICK buf \in Text : buf = SubSeq(reply, 1, n) /\ Piece(buf, reply, 1, n)
  <2>1. Piece(SubSeq(reply, 1, n), reply, 1, n)
    BY <1>n, PieceFacts
  <2> QED BY <2>1, Zenon DEF Piece
<1>2. Len(buf) = n
  BY <1>b DEF Piece, Size
<1>q. PICK q : q = SubSeq(buf, 1, m) /\ BeginsLike(q, buf)
  <2>1. m <= Len(buf)
    BY <1>1, <1>2
  <2> QED BY <2>1, BeginningOfAnswer, Zenon
<1>3. q = AnswerBuffer
  <2>1. SubSeq(SubSeq(reply, 1, n), 1, m) = SubSeq(reply, 1, m)
    BY <1>n, <1>1, PieceOfPrefix
  <2> QED BY <1>r, <1>m, <1>b, <1>q, <2>1, Zenon DEF AnswerBuffer
<1>4. /\ Has(q, LineEnds)
      /\ r.status = Status(q) /\ r.headers = Headers(q) /\ r.body = Body(q)
      /\ r.end = why /\ r.of = buf /\ r.gone = peer.gone
  <2>1. ~BadAnswer(AnswerBuffer, ~Plain)
    BY NoAnswerYet, Zenon DEF Answer
  <2>2. Has(q, LineEnds)
    BY <1>3, <2>1, Zenon DEF BadAnswer
  <2>3. r = [ok |-> TRUE, status |-> Status(AnswerBuffer), headers |-> Headers(AnswerBuffer),
             body |-> Body(AnswerBuffer), end |-> why, tls |-> ~Plain,
             of |-> SubSeq(peer.reply, 1, peer.sent), gone |-> peer.gone]
    BY <2>1, Zenon DEF Answer
  <2> HIDE DEF r
  <2>4. /\ r.status = Status(AnswerBuffer) /\ r.headers = Headers(AnswerBuffer)
        /\ r.body = Body(AnswerBuffer)
        /\ r.end = why /\ r.of = SubSeq(peer.reply, 1, peer.sent) /\ r.gone = peer.gone
    BY <2>3, Zenon
  <2> QED BY <1>r, <1>n, <1>b, <1>3, <2>2, <2>4, Zenon
<1> HIDE DEF r
<1>5. r.status = Status(r.of)
  BY <1>q, <1>4, Zenon DEF Status, BeginsLike
<1>6. IsPrefix(r.headers, Headers(r.of)) /\ IsPrefix(r.body, Body(r.of))
  BY <1>q, <1>4, Zenon DEF Headers, Body, BeginsLike
<1>7. ASSUME r.end = "eof" PROVE r.gone /\ r.headers = Headers(r.of) /\ r.body = Body(r.of)
  <2>1. m = n /\ r.gone
    BY <1>m, <1>n, <1>4, <1>7
  <2>2. q = buf
    BY <1>2, <1>q, <2>1, SubSeqFull DEF Text
  <2> QED BY <1>4, <2>1, <2>2, Zenon
<1> QED BY <1>5, <1>6, <1>7 DEF r

\* However an exchange ends.
LEMMA EndsKeepsAnswerInv ==
    ASSUME NetInv, AnswerInv, NEW answer, Ends(answer),
           \/ answer = NoAnswer
           \/ \E why : /\ answer = Answer(why)
                       /\ why = "eof" => call.got = peer.sent /\ peer.gone
    PROVE  AnswerInv'
<1>1. call' = Idle /\ peer' = NoPeer /\ resp' = answer
  BY DEF Ends
<1>2. /\ peer' \in [reply : Text, sent : Nat, gone : BOOLEAN]
      /\ call'.got <= peer'.sent /\ peer'.sent <= Len(peer'.reply)
      /\ call'.got < HTTP_RBUF
  BY <1>1, NoAnswerYet, NetAssumption
<1>3. ASSUME answer.ok, ~answer.tls
      PROVE  /\ answer.status = Status(answer.of)
             /\ IsPrefix(answer.headers, Headers(answer.of)) /\ IsPrefix(answer.body, Body(answer.of))
             /\ answer.end = "eof" => /\ answer.gone /\ answer.headers = Headers(answer.of)
                                      /\ answer.body = Body(answer.of)
  <2>1. PICK why : answer = Answer(why) /\ (why = "eof" => call.got = peer.sent /\ peer.gone)
    BY <1>3, NoAnswerYet
  <2>2. Plain
    BY <1>3, <2>1, NoAnswerYet DEF Answer
  <2> QED BY <1>3, <2>1, <2>2, AnswerIsSent
<1>4. AnswerIsTrue'
  BY <1>1, <1>2, <1>3 DEF AnswerIsTrue
<1> QED BY <1>2, <1>4 DEF AnswerInv

\* More is sent and more is read.
LEMMA AnswerInvStep == NetInv /\ AnswerInv /\ [Next]_vars => AnswerInv'
<1> SUFFICES ASSUME NetInv, AnswerInv, [Next]_vars PROVE AnswerInv'
  OBVIOUS
<1>0. call \in CallRecord
  BY DEF NetInv, NetTypes
<1>1. ASSUME UNCHANGED <<peer, call.got>>, UNCHANGED resp \/ resp' = NoAnswer PROVE AnswerInv'
  BY <1>1, NoAnswerYet DEF AnswerInv, AnswerIsTrue
<1>2. ASSUME UNCHANGED peer, call'.got = 0, UNCHANGED resp \/ resp' = NoAnswer PROVE AnswerInv'
  BY <1>2, NoAnswerYet, NetAssumption DEF AnswerInv, AnswerIsTrue
<1>3. CASE Script
  <2>1. \A f \in Natives : [Idle EXCEPT !.fn = f].got = 0
    BY DEF Idle
  <2>2. \A f \in Natives, c \in Nat : [Idle EXCEPT !.fn = "tls_accept", !.ctx = c].got = 0
    BY DEF Idle
  <2>3. ASSUME NEW f \in Natives \ {"tls_accept"}, begin(f) PROVE AnswerInv'
    BY <1>2, <2>1, <2>3 DEF begin
  <2>4. ASSUME NEW i \in Slots, begin_accept(i) PROVE AnswerInv'
    <3>1. call' = [Idle EXCEPT !.fn = "tls_accept", !.ctx = tls_pool[i].ctx]
      BY <2>4 DEF begin_accept
    <3>2. call'.got = 0
      BY <3>1 DEF Idle
    <3> QED BY <1>2, <2>4, <3>2 DEF begin_accept
  <2>5. ASSUME NEW i \in Slots, tls_close(i) PROVE AnswerInv'
    BY <1>1, <2>5 DEF tls_close
  <2>6. ASSUME NEW i \in Slots, NEW n \in 1..MaxRecord, tls_recv(i, n) PROVE AnswerInv'
    BY <1>1, <2>6 DEF tls_recv
  <2>7. ASSUME NEW f \in mine, net_close(f) PROVE AnswerInv'
    BY <1>1, <2>7 DEF net_close
  <2> QED BY <1>3, <2>3, <2>4, <2>5, <2>6, <2>7, Zenon DEF Script
<1>4. ASSUME NEW st, succeeds(st) \/ fails(st) PROVE AnswerInv'
  <2>1. UNCHANGED <<peer, resp>> /\ (call'.got = call.got \/ call'.got = 0)
    <3>1. CASE succeeds(st)
      <4>1. /\ [call EXCEPT !.fd = Least(FreeFds), !.at = @ + 1].got = call.got
            /\ [call EXCEPT !.ctx = Unused(held \cup Range(ssls)), !.at = @ + 1].got = call.got
            /\ [call EXCEPT !.ssl = Unused(DOMAIN ssls), !.at = @ + 1].got = call.got
            /\ [call EXCEPT !.slot = Least(Inactive), !.at = @ + 1].got = call.got
            /\ [call EXCEPT !.at = @ + 1].got = call.got
        BY <1>0 DEF CallRecord
      <4>2. Taking(st) /\ UNCHANGED <<peer, resp>>
        BY <3>1 DEF succeeds
      <4> QED BY <4>1, <4>2 DEF Taking
    <3>2. CASE fails(st)
      BY <3>2, NoAnswerYet DEF fails
    <3> QED BY <1>4, <3>1, <3>2
  <2> QED BY <1>1, <1>2, <2>1
<1>5. CASE returns
  BY <1>2, <1>5, NoAnswerYet DEF returns
<1>6. CASE connected
  <2>1. PICK r \in Replies : peer' = [reply |-> r, sent |-> 0, gone |-> FALSE]
    BY <1>6 DEF connected
  <2>2. r \in Text /\ Len(r) \in Nat
    <3>1. r \in Seq(STRING) /\ STRING \subseteq Token
      BY NetAssumption DEF Token
    <3>2. r \in Seq(Token)
      BY <3>1, SeqMonotonic, Zenon
    <3> QED BY <3>2 DEF Text
  <2>3. peer' \in [reply : Text, sent : Nat, gone : BOOLEAN] /\ peer'.reply = r /\ peer'.sent = 0
    BY <2>1, <2>2
  <2>4. UNCHANGED <<call, resp>> /\ peer = NoPeer
    BY <1>6 DEF connected
  <2>5. call'.got <= peer'.sent
    BY <2>3, <2>4, NoAnswerYet DEF AnswerInv
  <2>6. AnswerIsTrue'
    BY <2>4 DEF AnswerInv, AnswerIsTrue
  <2> QED BY <2>2, <2>3, <2>5, <2>6 DEF AnswerInv
<1>7. ASSUME NEW n \in 1..Request, send(n) PROVE AnswerInv'
  <2>1. call'.got = call.got
    BY <1>0, <1>7 DEF send, CallRecord
  <2> QED BY <1>1, <1>7, <2>1 DEF send
<1>8. ASSUME NEW n \in 1..HTTP_RBUF, recv(n) PROVE AnswerInv'
  <2>1. PICK g \in Nat : g = call.got
    BY <1>0 DEF CallRecord
  <2>2. call'.got = g + n
    BY <1>0, <1>8, <2>1 DEF recv, CallRecord
  <2>3. PICK s \in Nat : s = peer.sent
    BY DEF AnswerInv
  <2>4. n <= s - g /\ n <= HTTP_RBUF - g - 1
    BY <1>8, <2>1, <2>3 DEF recv, Arrived, Room
  <2>5. g + n <= s /\ g + n < HTTP_RBUF /\ n \in Nat
    BY <2>4, NetAssumption
  <2>6. UNCHANGED <<peer, resp>>
    BY <1>8 DEF recv
  <2>7. AnswerIsTrue'
    BY <2>2, <2>5, <2>6 DEF AnswerInv, AnswerIsTrue
  <2> QED BY <2>2, <2>3, <2>5, <2>6, <2>7 DEF AnswerInv
<1>9. CASE send_fails \/ recv_full \/ recv_eof \/ recv_timeout \/ recv_error
  <2>1. HungUp => call.got = peer.sent /\ peer.gone
    <3>1. call.got \in Int /\ peer.sent \in Int
      BY <1>0 DEF CallRecord, AnswerInv
    <3> QED BY <3>1 DEF HungUp, Arrived
  <2>2. \/ Ends(NoAnswer)
        \/ \E why : Ends(Answer(why)) /\ (why = "eof" => call.got = peer.sent /\ peer.gone)
    BY <1>9, <2>1 DEF send_fails, recv_full, recv_eof, recv_timeout, recv_error
  <2> QED BY <2>2, EndsKeepsAnswerInv
<1>10. CASE server_sends \/ server_closes
  <2>1. UNCHANGED <<call, resp>>
    BY <1>10 DEF server_sends, server_closes
  <2>2. AnswerIsTrue'
    BY <2>1 DEF AnswerInv, AnswerIsTrue
  <2>3. /\ peer' \in [reply : Text, sent : Nat, gone : BOOLEAN]
        /\ peer'.reply = peer.reply /\ peer'.sent <= Len(peer.reply) /\ peer.sent <= peer'.sent
    <3>1. CASE server_closes
      <4>1. peer \in [reply : Text, sent : Nat, gone : BOOLEAN] /\ peer' = [peer EXCEPT !.gone = TRUE]
        BY <3>1 DEF server_closes, AnswerInv
      <4>2. /\ peer' \in [reply : Text, sent : Nat, gone : BOOLEAN]
            /\ peer'.reply = peer.reply /\ peer'.sent = peer.sent
        BY <4>1
      <4>3. peer.sent <= Len(peer.reply) /\ peer.sent \in Nat
        BY <4>1 DEF AnswerInv
      <4> QED BY <4>2, <4>3
    <3>2. CASE server_sends
      <4>1. peer \in [reply : Text, sent : Nat, gone : BOOLEAN] /\ peer' = [peer EXCEPT !.sent = @ + 1]
        BY <3>2 DEF server_sends, AnswerInv
      <4>2. /\ peer' \in [reply : Text, sent : Nat, gone : BOOLEAN]
            /\ peer'.reply = peer.reply /\ peer'.sent = peer.sent + 1
        BY <4>1
      <4>3. peer.sent < Len(peer.reply) /\ Len(peer.reply) \in Nat /\ peer.sent \in Nat
        BY <3>2, <4>1 DEF server_sends, Text
      <4> QED BY <4>2, <4>3
    <3> QED BY <1>10, <3>1, <3>2
  <2>4. peer.sent \in Nat /\ peer'.sent \in Nat /\ call.got \in Nat
    BY <1>0, <2>3 DEF AnswerInv, CallRecord
  <2> QED BY <2>1, <2>2, <2>3, <2>4 DEF AnswerInv
<1>11. ASSUME NEW i \in Slots, NEW n \in 1..MaxRecord, record_arrives(i, n) PROVE AnswerInv'
  BY <1>1, <1>11 DEF record_arrives
<1>12. CASE UNCHANGED vars
  BY <1>1, <1>12 DEF vars
<1> QED BY <1>3, <1>4, <1>5, <1>6, <1>7, <1>8, <1>9, <1>10, <1>11, <1>12 DEF Next, Native, Peer

\* An answer that a server broke off, that came in any pieces, that was longer than the buffer or
\* that took too long has the status the server sent if its first line was read, and begins with
\* what the server sent; the end of the stream is taken for its end, a lull is not. Whatever the
\* server sends, the buffer is not overrun (http_exchange).
THEOREM AnswersAreTrue == Spec => []AnswerIsTrue
<1>1. Init => AnswerInv
  <2> SUFFICES ASSUME Init PROVE AnswerInv
    OBVIOUS
  <2> QED BY NoAnswerYet, NetAssumption DEF Init, AnswerInv, AnswerIsTrue
<1>2. AnswerInv => AnswerIsTrue
  BY DEF AnswerInv
<1> QED BY InitNetInv, NetInvStep, AnswerInvStep, <1>1, <1>2, PTL DEF Spec
=============================================================================
