--------------------------- MODULE ConsoleClient ---------------------------
(***************************************************************************)
(* The client of the dnsdist console (pkg/dnsdist/client.go) and the       *)
(* server at the other end of its connection, as mock_server.go has it.    *)
(* A command that fails is sent again on a new connection; connecting ends *)
(* with a command of its own, the handshake test, which is sent again on a *)
(* new connection if it fails.  The calls in progress are therefore a      *)
(* stack, whose top is its head.                                           *)
(*                                                                         *)
(* Nonces are random, so that two connections never share one: a nonce is  *)
(* here the number of messages since the exchange, and `keys' tells        *)
(* whether the client's nonces come from the exchange of the connection it *)
(* holds.  One caller uses the client at a time.                           *)
(***************************************************************************)
EXTENDS Naturals, Sequences

CONSTANTS
  Commands,    \* the commands the updater sends
  test,        \* the empty command of the handshake test
  Retries,     \* WithNumRetriesOnCommandFailure
  NonceSpace,  \* the values of a nonce's counter (2^32 in incrementNonce)
  MaxFaults    \* bounds the failures of the network and of the server

ASSUME ClientAssumption ==
  /\ test \notin Commands
  /\ Retries \in Nat
  /\ NonceSpace \in Nat \ {0}
  /\ MaxFaults \in Nat

VARIABLES
  stack,    \* invocations of command, the innermost first
  conn,     \* Client.conn: "nil", or "set", which says nothing of its state
  keys,     \* "current": rNonce and wNonce belong to that connection
  nonce,    \* the counters of the client's and the server's nonces
  peer,     \* the server's side of that connection: "ready" or "gone"
  wire,     \* the messages on their way, in each direction
  up,       \* the server: "up" or "down"
  result,   \* of the last call of the updater
  faults,   \* how many failures there have been
  hits,     \* observation: how many of them since the present call began
  done      \* observation: how often the server has executed that call

vars == <<stack, conn, keys, nonce, peer, wire, up, result, faults, hits, done>>

Frame == [cmd : Commands \cup {test}, attempts : 0 .. Retries,
          pc : {"connect", "send", "wait", "failed", "return"}]

Nonces == 0 .. NonceSpace - 1

Message == [cmd : Commands \cup {test}, nonce : Nonces]

Nothing == [requests |-> <<>>, answers |-> <<>>]

(* w and r are the client's write and read nonces, sr and sw the server's. *)
NewNonces == [w |-> 0, r |-> 0, sw |-> 0, sr |-> 0]

Init ==
  /\ stack = <<>>
  /\ conn = "nil"
  /\ keys = "old"
  /\ nonce = NewNonces
  /\ peer = "gone"
  /\ wire = Nothing
  /\ up = "up"
  /\ result = "none"
  /\ faults = 0
  /\ hits = 0
  /\ done = 0

-----------------------------------------------------------------------------
Top == Head(stack)

Running(pc) == stack # <<>> /\ Top.pc = pc

WithTop(f) == <<f>> \o Tail(stack)

IncrementNonce(n) == (n + 1) % NonceSpace

(* ensureConnected takes any conn for a connection. *)
Invocation(c) ==
  [cmd |-> c, attempts |-> 0, pc |-> IF conn = "nil" THEN "connect" ELSE "send"]

Command(c) ==
  /\ stack = <<>>
  /\ stack' = <<Invocation(c)>>
  /\ result' = "none"
  /\ hits' = 0
  /\ done' = 0
  /\ UNCHANGED <<conn, keys, nonce, peer, wire, up, faults>>

(* Mutant: a failed reconnect is followed by another sendCommand. *)
ConnectFailedSends(f) == [f EXCEPT !.pc = IF f.attempts = 0 THEN "return" ELSE "send"]

(* What an error of connect means to the command that called it: the end if *)
(* it came from ensureConnected, a lost attempt if it came from reconnect.  *)
ConnectFailed(f) == [f EXCEPT !.pc = IF f.attempts = 0 THEN "return" ELSE "failed"]

Dial ==
  /\ Running("connect")
  /\ up = "down"
  /\ conn' = "nil"
  /\ peer' = "gone"
  /\ stack' = WithTop(ConnectFailed(Top))
  /\ UNCHANGED <<keys, nonce, wire, up, result, faults, hits, done>>

(* The exchange of nonces succeeds, and the test is the next command. *)
Connect ==
  /\ Running("connect")
  /\ up = "up"
  /\ conn' = "set"
  /\ peer' = "ready"
  /\ keys' = "current"
  /\ nonce' = NewNonces
  /\ stack' = <<[cmd |-> test, attempts |-> 0, pc |-> "send"]>> \o stack
  /\ UNCHANGED <<wire, up, result, faults, hits, done>>

(* encrypt and the two writes. *)
Send ==
  /\ Running("send")
  /\ nonce' = [nonce EXCEPT !.w = IncrementNonce(@)]
  /\ IF peer = "ready"
       THEN /\ wire' = [wire EXCEPT !.requests =
                          Append(@, [cmd |-> Top.cmd, nonce |-> nonce.w])]
            /\ stack' = WithTop([Top EXCEPT !.pc = "wait"])
       ELSE /\ stack' = WithTop([Top EXCEPT !.pc = "failed"])
            /\ UNCHANGED wire
  /\ UNCHANGED <<conn, keys, peer, up, result, faults, hits, done>>

(* The command returns to the updater, or to the connect that tests. *)
Returns(ok) ==
  IF Len(stack) = 1
    THEN /\ stack' = <<>>
         /\ result' = IF ok THEN "ok" ELSE "error"
    ELSE LET caller == stack[2]
         IN  /\ stack' = <<IF ok THEN [caller EXCEPT !.pc = "send"]
                                 ELSE ConnectFailed(caller)>> \o Tail(Tail(stack))
             /\ UNCHANGED result

(* Mutant: the client counts from another nonce than the server. *)
DecryptsNext(m) == keys = "current" /\ m.nonce = IncrementNonce(nonce.r)

(* decrypt, which leaves rNonce alone if it fails. *)
Decrypts(m) == keys = "current" /\ m.nonce = nonce.r

Receive ==
  /\ Running("wait")
  /\ wire.answers # <<>>
  /\ wire' = [wire EXCEPT !.answers = Tail(@)]
  /\ IF Decrypts(Head(wire.answers))
       THEN /\ nonce' = [nonce EXCEPT !.r = IncrementNonce(@)]
            /\ Returns(TRUE)
       ELSE /\ stack' = WithTop([Top EXCEPT !.pc = "failed"])
            /\ UNCHANGED <<nonce, result>>
  /\ UNCHANGED <<conn, keys, peer, up, faults, hits, done>>

(* Mutant: the read of a command's answer gives up after a while. *)
ReadTimesOut ==
  /\ Running("wait")
  /\ Top.cmd # test \/ peer = "gone"
  /\ stack' = WithTop([Top EXCEPT !.pc = "failed"])
  /\ UNCHANGED <<conn, keys, nonce, peer, wire, up, result, faults, hits, done>>

(* There is no deadline: a read ends with an answer or with the connection. *)
ReadFails ==
  /\ Running("wait")
  /\ peer = "gone"
  /\ stack' = WithTop([Top EXCEPT !.pc = "failed"])
  /\ UNCHANGED <<conn, keys, nonce, peer, wire, up, result, faults, hits, done>>

(* Mutant: the command is sent again on the connection it failed on. *)
ReconnectBySending ==
  /\ Running("failed")
  /\ Top.attempts < Retries
  /\ stack' = WithTop([Top EXCEPT !.attempts = @ + 1, !.pc = "send"])
  /\ UNCHANGED <<conn, keys, nonce, peer, wire, up, result, faults, hits, done>>

(* Mutant: one attempt more than configured. *)
ReconnectOnceMore ==
  /\ Running("failed")
  /\ Top.attempts <= Retries
  /\ conn' = "nil"
  /\ peer' = "gone"
  /\ wire' = Nothing
  /\ stack' = WithTop([Top EXCEPT !.attempts = @ + 1, !.pc = "connect"])
  /\ UNCHANGED <<keys, nonce, up, result, faults, hits, done>>

(* reconnect closes the connection and starts another one. *)
Reconnect ==
  /\ Running("failed")
  /\ Top.attempts < Retries
  /\ conn' = "nil"
  /\ peer' = "gone"
  /\ wire' = Nothing
  /\ stack' = WithTop([Top EXCEPT !.attempts = @ + 1, !.pc = "connect"])
  /\ UNCHANGED <<keys, nonce, up, result, faults, hits, done>>

GiveUp ==
  /\ Running("return") \/ (Running("failed") /\ Top.attempts >= Retries)
  /\ Returns(FALSE)
  /\ UNCHANGED <<conn, keys, nonce, peer, wire, up, faults, hits, done>>

-----------------------------------------------------------------------------
(* The server. *)

(* receiveCommand, getResponse and sendResponse; what does not decrypt ends *)
(* the connection.                                                          *)
Handle ==
  LET request == Head(wire.requests)
  IN  /\ wire.requests # <<>>
      /\ IF keys = "current" /\ request.nonce = nonce.sr
           THEN /\ wire' = [requests |-> Tail(wire.requests),
                            answers  |-> Append(wire.answers, [cmd |-> request.cmd,
                                                               nonce |-> nonce.sw])]
                /\ nonce' = [nonce EXCEPT !.sr = IncrementNonce(@), !.sw = IncrementNonce(@)]
                /\ done' = IF request.cmd = test THEN done ELSE done + 1
                /\ UNCHANGED peer
           ELSE /\ wire' = Nothing
                /\ peer' = "gone"
                /\ UNCHANGED <<nonce, done>>
      /\ UNCHANGED <<stack, conn, keys, up, result, faults, hits>>

Fault ==
  /\ faults < MaxFaults
  /\ faults' = faults + 1
  /\ hits' = hits + 1

(* The exchange fails after the dial: nothing, or only a part of the        *)
(* server's nonce arrives.  The connection is kept, with the nonces of      *)
(* another one.                                                             *)
ExchangeFails ==
  /\ Fault
  /\ Running("connect")
  /\ up = "up"
  /\ conn' = "set"
  /\ peer' \in {"ready", "gone"}
  /\ keys' = "old"
  /\ nonce' = [nonce EXCEPT !.sr = 0, !.sw = 0]
  /\ stack' = WithTop(ConnectFailed(Top))
  /\ UNCHANGED <<wire, up, result, done>>

(* The connection breaks, and what was on its way is lost.  Disconnect,     *)
(* too, closes the connection and leaves conn as it is.                     *)
Break ==
  /\ Fault
  /\ peer = "ready"
  /\ peer' = "gone"
  /\ wire' = Nothing
  /\ UNCHANGED <<stack, conn, keys, nonce, up, result, done>>

ServerDown ==
  /\ Fault
  /\ up = "up"
  /\ up' = "down"
  /\ peer' = "gone"
  /\ wire' = Nothing
  /\ UNCHANGED <<stack, conn, keys, nonce, result, done>>

ServerUp ==
  /\ up = "down"
  /\ up' = "up"
  /\ UNCHANGED <<stack, conn, keys, nonce, peer, wire, result, faults, hits, done>>

-----------------------------------------------------------------------------
Client == Dial \/ Connect \/ Send \/ Receive \/ ReadFails \/ Reconnect \/ GiveUp

Next ==
  \/ \E c \in Commands : Command(c)
  \/ Client
  \/ Handle
  \/ ExchangeFails \/ Break \/ ServerDown
  \/ ServerUp

(* The updater sends commands for ever (its ticker), its goroutine goes on, *)
(* and a server that is up answers.  A server that is down may stay down.   *)
Fairness ==
  /\ WF_vars(\E c \in Commands : Command(c))
  /\ WF_vars(Client)
  /\ WF_vars(Handle)

Spec == Init /\ [][Next]_vars /\ Fairness

-----------------------------------------------------------------------------
(* The types of the variables; checked as a part of SendsOnConnection. *)
TypeOK ==
  /\ stack \in Seq(Frame)
  /\ conn \in {"nil", "set"}
  /\ keys \in {"current", "old"}
  /\ nonce \in [w : Nonces, r : Nonces, sw : Nonces, sr : Nonces]
  /\ peer \in {"ready", "gone"}
  /\ wire \in [requests : Seq(Message), answers : Seq(Message)]
  /\ up \in {"up", "down"}
  /\ result \in {"none", "ok", "error"}
  /\ faults \in 0 .. MaxFaults
  /\ hits \in 0 .. faults
  /\ done \in Nat

(* sendCommand writes to a connection: however deep the tests, failed dials *)
(* and retries are nested, none of them leaves a nil conn to a caller that  *)
(* goes on to send.                                                         *)
SendsOnConnection ==
  /\ TypeOK
  /\ \A i \in 1 .. Len(stack) : stack[i].pc \in {"send", "wait"} => conn = "set" /\ i = 1

(* The server executes a command again only if a failure hit this very call *)
(* (its answer was lost), and never more often than the retries allow.  A   *)
(* connection that had broken before, or was left with the nonces of        *)
(* another one, costs an attempt and not an execution.                      *)
RepeatedOnlyAfterFault == done <= 1 + hits /\ done <= 1 + Retries

(* A command that is reported as carried out has been carried out, and an   *)
(* answer that decrypts is the answer to the command that waits for it.     *)
AnswerIsOwn ==
  /\ result = "ok" => done > 0
  /\ Running("wait") /\ wire.answers # <<>> /\ Decrypts(Head(wire.answers))
       => Head(wire.answers).cmd = Top.cmd

(* The nesting of command, reconnect, connect and command has no limit in   *)
(* the code.  It is as deep as the failures of this call, and without any   *)
(* the handshake test is as far as it goes.                                 *)
DepthBoundedByFaults == Len(stack) <= 2 + hits

(* Once the server stays up, and the failures (of which there are finitely  *)
(* many) are over, commands succeed: no stale connection, no nonces of an   *)
(* earlier exchange and no counter out of step stay behind.  It needs a     *)
(* retry, since ensureConnected trusts a broken connection.                 *)
Recovers == <>[](up = "up") => <>[](result # "error")

=============================================================================
