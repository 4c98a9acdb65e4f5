------------------------------- MODULE ChnNet --------------------------------
(***************************************************************************)
(* The network natives (src/v1.1/native_net.c): what a call takes from the *)
(* operating system and from OpenSSL, stage by stage, what it gives back   *)
(* at the stage that fails, the pool of TLS connections, and the exchange  *)
(* of an HTTP request and its answer with a peer that may be slow, break   *)
(* off or never answer.                                                    *)
(*                                                                         *)
(* A call is a sequence of stages, each named for the function it calls,   *)
(* with what is released if it fails. Timeouts are not negative. Sending,  *)
(* which leaves the tables alone, is part of the peer's actions.           *)
(***************************************************************************)
EXTENDS Integers, FiniteSets, SequencesExt

CONSTANTS
    MaxFd,              \* descriptors a process may have; 0 to 2 are the terminal
    NET_MAX_TLS_CONNS,  \* slots of the pool
    HTTP_RBUF,          \* the buffer for an answer
    Request,            \* the length of a request
    Replies,            \* what servers answer, in pieces
    MaxRecord,          \* bytes of a TLS record
    HttpBeside          \* descriptors in use when an HTTP call is made, at most

VARIABLES
    open,       \* descriptors that are open, in the kernel
    held,       \* SSL_CTXs that were not freed
    ssls,       \* the SSLs that were not freed: the contexts they refer to
    inbox,      \* what has come in for each: bytes on the wire, bytes decrypted and pending
    tls_pool,   \* the connections
    mine,       \* descriptors the script was given and has not closed
    call,       \* the call in progress: its native, stage, and what it has taken
    peer,       \* an HTTP server: what it answers, how much of it was sent, if it hung up
    resp,       \* what the last HTTP call returned
    missed      \* the last tls_recv found nothing, and there was something

vars == <<open, held, ssls, inbox, tls_pool, mine, call, peer, resp, missed>>

ASSUME NetAssumption == /\ MaxFd \in Nat /\ NET_MAX_TLS_CONNS \in Nat \ {0}
                        /\ HTTP_RBUF \in Nat \ {0, 1} /\ Request \in Nat \ {0} /\ MaxRecord \in Nat
                        /\ HttpBeside \in Nat
                        /\ \A r \in Replies : r \in Seq(STRING)

Slots == 0..NET_MAX_TLS_CONNS - 1
Free == [active |-> FALSE, fd |-> 0, ssl |-> 0, ctx |-> 0]
Conn(f, s, c) == [active |-> TRUE, fd |-> f, ssl |-> s, ctx |-> c]

Idle == [fn |-> "idle", at |-> 1, fd |-> 0, ssl |-> 0, ctx |-> 0, slot |-> 0, sent |-> 0, got |-> 0]
NoPeer == [reply |-> <<"none">>, sent |-> 0, gone |-> TRUE]
NoAnswer == [ok |-> FALSE, status |-> <<>>, headers |-> <<>>, body |-> <<>>, end |-> "", tls |-> FALSE,
             of |-> <<>>, gone |-> TRUE]

Init == /\ open = {} /\ held = {} /\ ssls = <<>> /\ inbox = <<>> /\ mine = {}
        /\ tls_pool = [i \in Slots |-> Free]
        /\ call = Idle /\ peer = NoPeer /\ resp = NoAnswer /\ missed = FALSE

----------------------------------------------------------------------------
(* The natives: stages, with what is released when one fails               *)

tcp_listen == << <<"socket", {}>>, <<"bind", {"fd"}>>, <<"listen", {"fd"}>> >>
tcp_accept == << <<"wait_fd", {}>>, <<"accept", {}>> >>
tcp_connect == << <<"resolve_host", {}>>, <<"socket", {}>>, <<"connect", {"fd"}>>,
                  <<"wait_fd", {"fd"}>>, <<"getsockopt", {"fd"}>> >>
udp_bind == << <<"socket", {}>>, <<"bind", {"fd"}>> >>
http == << <<"socket", {}>>, <<"resolve_host", {"fd"}>>, <<"wait_fd", {"fd"}>> >>
https == << <<"SSL_CTX_new", {}>>, <<"socket", {"ctx"}>>, <<"resolve_host", {"fd", "ctx"}>>,
            <<"wait_fd", {"fd", "ctx"}>>, <<"SSL_new", {}>>, <<"SSL_connect", {"ssl", "fd", "ctx"}>> >>
tls_listen == << <<"tls_alloc", {}>>, <<"SSL_CTX_new", {}>>, <<"use_certificate", {"ctx"}>>,
                 <<"socket", {"ctx"}>>, <<"bind", {"fd", "ctx"}>>, <<"listen", {"fd", "ctx"}>> >>

\* Mutant: no slot for an accepted connection, and its descriptor stays open.
tls_accept_drops == << <<"wait_fd", {}>>, <<"accept", {}>>, <<"tls_alloc", {}>>,
                       <<"SSL_new", {}>>, <<"SSL_accept", {"ssl", "fd"}>> >>

\* The connection refers to the listener's context, which it does not take.
tls_accept == << <<"wait_fd", {}>>, <<"accept", {}>>, <<"tls_alloc", {"fd"}>>,
                 <<"SSL_new", {}>>, <<"SSL_accept", {"ssl", "fd"}>> >>
tls_connect == << <<"tls_alloc", {}>>, <<"SSL_CTX_new", {}>>, <<"resolve_host", {"ctx"}>>,
                  <<"socket", {"ctx"}>>, <<"wait_fd", {"fd", "ctx"}>>, <<"SSL_new", {}>>,
                  <<"SSL_connect", {"ssl", "fd", "ctx"}>> >>

net_dispatch == [tcp_listen |-> tcp_listen, tcp_accept |-> tcp_accept, tcp_connect |-> tcp_connect,
                 udp_bind |-> udp_bind, http |-> http, https |-> https,
                 tls_listen |-> tls_listen, tls_accept |-> tls_accept, tls_connect |-> tls_connect]
Natives == DOMAIN net_dispatch
Handshakes == {"SSL_connect", "SSL_accept"}
Blocking == {"https", "tls_accept", "tls_connect"}      \* those that shake hands, without a timeout

Stages == net_dispatch[call.fn]
Busy == call.fn # "idle" /\ call.at <= Len(Stages)
Least(S) == CHOOSE i \in S : \A j \in S : i <= j
Unused(S) == Least((1..Cardinality(S) + 1) \ S)
FreeFds == (3..MaxFd) \ open

\* Mutant: a slot is free unless it has a context of its own.
NoContext == {i \in Slots : tls_pool[i].ctx = 0}

Inactive == {i \in Slots : ~tls_pool[i].active}

\* The script calls a native; tls_accept needs a listener.
begin(fn) ==
    /\ call.fn = "idle"
    /\ fn \in {"http", "https"} => Cardinality(open) <= HttpBeside
    /\ call' = [Idle EXCEPT !.fn = fn]
    /\ resp' = NoAnswer /\ missed' = FALSE
    /\ UNCHANGED <<open, held, ssls, inbox, tls_pool, mine, peer>>

begin_accept(lid) ==
    /\ call.fn = "idle" /\ tls_pool[lid].active /\ tls_pool[lid].ctx # 0
    /\ call' = [Idle EXCEPT !.fn = "tls_accept", !.ctx = tls_pool[lid].ctx]
    /\ resp' = NoAnswer /\ missed' = FALSE
    /\ UNCHANGED <<open, held, ssls, inbox, tls_pool, mine, peer>>

\* A stage that succeeds takes what its function returns.
Taking(stage) ==
    CASE stage \in {"socket", "accept"} ->
            /\ FreeFds # {}
            /\ call' = [call EXCEPT !.fd = Least(FreeFds), !.at = @ + 1]
            /\ open' = open \cup {Least(FreeFds)} /\ UNCHANGED <<held, ssls, inbox>>
      [] stage = "SSL_CTX_new" ->
            LET c == Unused(held \cup Range(ssls)) IN
            /\ call' = [call EXCEPT !.ctx = c, !.at = @ + 1]
            /\ held' = held \cup {c} /\ UNCHANGED <<open, ssls, inbox>>
      [] stage = "SSL_new" ->
            LET s == Unused(DOMAIN ssls) IN
            /\ call' = [call EXCEPT !.ssl = s, !.at = @ + 1]
            /\ ssls' = [i \in DOMAIN ssls \cup {s} |-> IF i = s THEN call.ctx ELSE ssls[i]]
            /\ inbox' = [i \in DOMAIN inbox \cup {s} |->
                            IF i = s THEN [wire |-> 0, pending |-> 0] ELSE inbox[i]]
            /\ UNCHANGED <<open, held>>
      [] stage = "tls_alloc" ->
            /\ Inactive # {}
            /\ call' = [call EXCEPT !.slot = Least(Inactive), !.at = @ + 1]
            /\ UNCHANGED <<open, held, ssls, inbox>>
      [] OTHER ->
            /\ call' = [call EXCEPT !.at = @ + 1] /\ UNCHANGED <<open, held, ssls, inbox>>

Releasing(what) ==
    /\ open' = IF "fd" \in what THEN open \ {call.fd} ELSE open
    /\ held' = IF "ctx" \in what THEN held \ {call.ctx} ELSE held
    /\ ssls' = IF "ssl" \in what THEN [i \in DOMAIN ssls \ {call.ssl} |-> ssls[i]] ELSE ssls
    /\ inbox' = IF "ssl" \in what THEN [i \in DOMAIN inbox \ {call.ssl} |-> inbox[i]] ELSE inbox

\* What is not looked at does not fail: SSL_new, and the context of a client.
MayFail(stage) ==
    CASE stage = "SSL_new" -> FALSE
      [] stage = "SSL_CTX_new" -> call.fn = "tls_listen"
      [] stage = "tls_alloc" -> Inactive = {}
      [] OTHER -> TRUE

succeeds(stage) ==
    /\ Busy /\ Stages[call.at][1] = stage
    /\ Taking(stage)
    /\ UNCHANGED <<tls_pool, mine, peer, resp, missed>>

fails(stage) ==
    /\ Busy /\ Stages[call.at][1] = stage /\ MayFail(stage)
    /\ Releasing(Stages[call.at][2])
    /\ call' = Idle
    /\ UNCHANGED <<tls_pool, mine, peer, resp, missed>>

\* All stages done: the script gets the descriptor, or the number of the slot that is filled now.
returns ==
    /\ call.fn \in Natives \ {"http", "https"} /\ ~Busy
    /\ IF call.fn \in {"tls_listen", "tls_accept", "tls_connect"}
       THEN /\ tls_pool' = [tls_pool EXCEPT ![call.slot] =
                   Conn(call.fd, call.ssl, IF call.fn = "tls_accept" THEN 0 ELSE call.ctx)]
            /\ UNCHANGED mine
       ELSE mine' = mine \cup {call.fd} /\ UNCHANGED tls_pool
    /\ call' = Idle
    /\ UNCHANGED <<open, held, ssls, inbox, peer, resp, missed>>

----------------------------------------------------------------------------
(* An HTTP exchange                                                        *)

Has(buf, T) == \E i \in 1..Len(buf) : buf[i] \in T
FirstOf(buf, T) == SelectInSeq(buf, LAMBDA e : e \in T)
Before(buf, T) == IF Has(buf, T) THEN SubSeq(buf, 1, FirstOf(buf, T) - 1) ELSE buf
After(buf, T) == IF Has(buf, T) THEN SubSeq(buf, FirstOf(buf, T) + 1, Len(buf)) ELSE <<>>

\* The number behind the first space, which http_exchange wants in the first line; the text up to
\* the blank line; what follows it.
LineEnds == {"nl", "blank"}
Status(buf) == SelectSeq(Before(buf, LineEnds), LAMBDA e : e = "digit")
Headers(buf) == Before(buf, {"blank"})
Body(buf) == After(buf, {"blank"})

Exchanging == call.fn \in {"http", "https"} /\ ~Busy
Plain == call.fn = "http"
AnswerBuffer == SubSeq(peer.reply, 1, call.got)

\* The server the request goes to has one of the answers.
connected ==
    /\ Exchanging /\ peer = NoPeer
    /\ \E r \in Replies : peer' = [reply |-> r, sent |-> 0, gone |-> FALSE]
    /\ UNCHANGED <<open, held, ssls, inbox, tls_pool, mine, call, resp, missed>>

Connection == IF Plain THEN {"fd"} ELSE {"ssl", "fd", "ctx"}

Ends(answer) ==
    /\ Releasing(Connection) /\ resp' = answer
    /\ call' = Idle /\ peer' = NoPeer
    /\ UNCHANGED <<tls_pool, mine, missed>>

\* http_exchange wants a line; https_exchange takes whatever was read.
BadAnswer(buf, tls) == ~tls /\ ~Has(buf, LineEnds)

Answer(why) ==
    IF BadAnswer(AnswerBuffer, ~Plain) THEN NoAnswer
    ELSE [ok |-> TRUE, status |-> Status(AnswerBuffer), headers |-> Headers(AnswerBuffer),
          body |-> Body(AnswerBuffer), end |-> why, tls |-> ~Plain,
          of |-> SubSeq(peer.reply, 1, peer.sent), gone |-> peer.gone]

Sending == Exchanging /\ peer # NoPeer /\ call.sent < Request
send(n) ==
    /\ Sending /\ call.sent + n <= Request
    /\ call' = [call EXCEPT !.sent = @ + n]
    /\ UNCHANGED <<open, held, ssls, inbox, tls_pool, mine, peer, resp, missed>>

\* The peer does not take the rest in time, or hung up.
send_fails == Sending /\ (Plain \/ peer.gone) /\ Ends(NoAnswer)

Receiving == Exchanging /\ call.sent = Request
Room == HTTP_RBUF - call.got - 1
Arrived == peer.sent - call.got

Full(total) == total >= HTTP_RBUF - 1

recv(n) ==
    /\ Receiving /\ ~Full(call.got) /\ n <= Arrived /\ n <= Room
    /\ call' = [call EXCEPT !.got = @ + n]
    /\ UNCHANGED <<open, held, ssls, inbox, tls_pool, mine, peer, resp, missed>>

recv_full == Receiving /\ Full(call.got) /\ Ends(Answer("full"))

\* Mutant: a lull ends the answer, as the end of it does.
HungUpOrQuiet == Arrived = 0

HungUp == Arrived = 0 /\ peer.gone

recv_eof == Receiving /\ ~Full(call.got) /\ HungUp /\ Ends(Answer("eof"))

\* Mutant: select waits for as long as it takes.
Waits == FALSE

\* wait_fd returns when its time is over; SSL_read has no such limit.
TimesOut == Plain

recv_timeout ==
    /\ Receiving /\ ~Full(call.got) /\ Arrived = 0 /\ ~peer.gone /\ TimesOut
    /\ Ends(Answer("timeout"))

\* The connection is reset; what was read so far counts.
recv_error == Receiving /\ ~Full(call.got) /\ Ends(Answer("error"))

\* The server sends a piece of its answer, or hangs up, done or not.
server_sends ==
    /\ Exchanging /\ ~peer.gone /\ peer.sent < Len(peer.reply)
    /\ peer' = [peer EXCEPT !.sent = @ + 1]
    /\ UNCHANGED <<open, held, ssls, inbox, tls_pool, mine, call, resp, missed>>
server_closes ==
    /\ Exchanging /\ ~peer.gone
    /\ peer' = [peer EXCEPT !.gone = TRUE]
    /\ UNCHANGED <<open, held, ssls, inbox, tls_pool, mine, call, resp, missed>>

----------------------------------------------------------------------------
(* Connections in use                                                      *)

net_close(fd) ==
    /\ call.fn = "idle" /\ fd \in mine
    /\ open' = open \ {fd} /\ mine' = mine \ {fd}
    /\ resp' = NoAnswer /\ missed' = FALSE
    /\ UNCHANGED <<held, ssls, inbox, tls_pool, call, peer>>

\* Mutant: the slot is not cleared.
StillThere(c) == c

Cleared(c) == Free

\* With a number that is no connection's, nothing happens.
tls_close(id) ==
    /\ call.fn = "idle" /\ tls_pool[id].active
    /\ LET c == tls_pool[id] IN
       /\ open' = open \ {c.fd} /\ held' = held \ {c.ctx}
       /\ ssls' = [i \in DOMAIN ssls \ {c.ssl} |-> ssls[i]]
       /\ inbox' = [i \in DOMAIN inbox \ {c.ssl} |-> inbox[i]]
       /\ tls_pool' = [tls_pool EXCEPT ![id] = Cleared(c)]
    /\ resp' = NoAnswer /\ missed' = FALSE
    /\ UNCHANGED <<mine, call, peer>>

\* Bound: data that was not read waits in one connection at a time.
NothingWaits == \A s \in DOMAIN inbox : inbox[s] = [wire |-> 0, pending |-> 0]

\* The other end sends a record.
record_arrives(id, n) ==
    /\ call.fn = "idle" /\ tls_pool[id].ssl # 0 /\ NothingWaits
    /\ inbox' = [inbox EXCEPT ![tls_pool[id].ssl].wire = n]
    /\ resp' = NoAnswer /\ missed' = FALSE
    /\ UNCHANGED <<open, held, ssls, tls_pool, mine, call, peer>>

\* Mutant: only the descriptor is looked at.
OnTheWire(box) == box.wire > 0

\* wait_fd sees what is on the wire, SSL_pending the rest of a record that was begun.
Readable(box) == box.wire > 0 \/ box.pending > 0

\* SSL_read decrypts a whole record and hands out up to max bytes.
tls_recv(id, max) ==
    /\ call.fn = "idle" /\ tls_pool[id].ssl # 0
    /\ LET s == tls_pool[id].ssl
           total == inbox[s].wire + inbox[s].pending IN
       IF Readable(inbox[s])
       THEN /\ inbox' = [inbox EXCEPT ![s] =
                   [wire |-> 0, pending |-> IF total > max THEN total - max ELSE 0]]
            /\ missed' = FALSE
       ELSE missed' = (total > 0) /\ UNCHANGED inbox
    /\ resp' = NoAnswer
    /\ UNCHANGED <<open, held, ssls, tls_pool, mine, call, peer>>

----------------------------------------------------------------------------

AllStages == UNION {{net_dispatch[f][i][1] : i \in 1..Len(net_dispatch[f])} : f \in Natives}

Script == \/ \E f \in Natives \ {"tls_accept"} : begin(f)
          \/ \E i \in Slots : begin_accept(i) \/ tls_close(i)
          \/ \E i \in Slots, n \in 1..MaxRecord : tls_recv(i, n)
          \/ \E f \in mine : net_close(f)
Native == \/ \E st \in AllStages \ Handshakes : succeeds(st) \/ fails(st)
          \/ returns \/ connected
          \/ \E n \in 1..Request : send(n)
          \/ \E n \in 1..HTTP_RBUF : recv(n)
          \/ send_fails \/ recv_full \/ recv_eof \/ recv_timeout
Peer == \/ \E st \in Handshakes : succeeds(st) \/ fails(st)
        \/ server_sends \/ server_closes \/ recv_error
        \/ \E i \in Slots, n \in 1..MaxRecord : record_arrives(i, n)
Next == Script \/ Native \/ Peer

\* The process goes on with a call it is in; peers and scripts do what they like.
Spec == Init /\ [][Next]_vars /\ WF_vars(Native)

----------------------------------------------------------------------------
(* Properties                                                              *)

Active == {i \in Slots : tls_pool[i].active}
PoolFds == {tls_pool[i].fd : i \in Active}
PoolSsls == {tls_pool[i].ssl : i \in Active} \ {0}
PoolCtxs == {tls_pool[i].ctx : i \in Active} \ {0}

\* Between calls, whatever failed at whichever stage, every descriptor that is open is the
\* script's or a slot's, every SSL and every context is a slot's, and none of these was freed.
NothingLeaks ==
    call.fn = "idle" => /\ open = mine \cup PoolFds
                        /\ DOMAIN ssls = PoolSsls /\ held = PoolCtxs

\* Also during a call no two slots share a descriptor, an SSL or a context, none has one that
\* the script may close, and the slot of an unfinished call is not in use.
SlotsOwnTheirs ==
    /\ \A i, j \in Active : i # j =>
          /\ tls_pool[i].fd # tls_pool[j].fd
          /\ tls_pool[i].ssl = tls_pool[j].ssl => tls_pool[i].ssl = 0
          /\ tls_pool[i].ctx = tls_pool[j].ctx => tls_pool[i].ctx = 0
    /\ PoolFds \cap mine = {} /\ PoolFds \subseteq open
    /\ \A i \in 1..Len(IF Busy THEN Stages ELSE <<>>) :
          i < call.at /\ Stages[i][1] = "tls_alloc" => ~tls_pool[call.slot].active

\* What http_get and http_post return as a success has the status of what the server sent and
\* begins like it, whatever cut it: a timeout, a full buffer, a reset; and if the end of the
\* stream ended it the server has hung up and it is all that was sent. The buffer holds it.
AnswerIsTrue ==
    /\ resp.ok /\ ~resp.tls =>
          /\ resp.status = Status(resp.of)
          /\ IsPrefix(resp.headers, Headers(resp.of)) /\ IsPrefix(resp.body, Body(resp.of))
          /\ resp.end = "eof" => resp.gone /\ resp.headers = Headers(resp.of) /\ resp.body = Body(resp.of)
    /\ call.got < HTTP_RBUF

\* tls_recv returns nothing only if nothing came, the rest of a record read in part included.
NothingMissed == ~missed

\* Every call that shakes no hands ends, whatever the peer does.
CallsEnd == (call.fn \in Natives \ Blocking) ~> (call.fn = "idle")
=============================================================================
