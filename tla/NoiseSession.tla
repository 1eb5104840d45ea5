---------------------------- MODULE NoiseSession ----------------------------
(***************************************************************************)
(* The responder's half of a Noise XX session: NoiseSession in             *)
(* server/bitchatd/crypto/noise_session.py.                                *)
(*                                                                         *)
(* Keys are abstracted to the ephemeral keys they come from, the number of *)
(* times both directions have been rekeyed since, and nothing else: two    *)
(* sessions decrypt each other's messages when they agree on those.        *)
(***************************************************************************)
EXTENDS Integers

CONSTANTS
    None,          \* no session, no key, no message
    MsgLimit       \* NOISE_REKEY_MSG_LIMIT_SESSION

ASSUME MsgLimitAssumption == MsgLimit \in Nat \ {0}

(* An ephemeral key.  Garbage is what a responder that expects the first   *)
(* handshake message takes for the initiator's key in the first 32 bytes   *)
(* of any longer message.                                                  *)
Garbage   == 0
Ephemeral == Nat

Msg1(e)        == [kind |-> "msg1", ei |-> e, er |-> None]
Msg2(ei, er)   == [kind |-> "msg2", ei |-> ei, er |-> er]
Msg3(ei, er)   == [kind |-> "msg3", ei |-> ei, er |-> er]

(* st: start (nothing read), read (the first message), wrote (the second), *)
(* transport (established) or failed.  used counts what was encrypted      *)
(* since the last rekeying.                                                *)
Responder == [st |-> "start", ei |-> None, er |-> None, epoch |-> 0, used |-> 0]

SessionType ==
    [st : {"start", "read", "wrote", "transport", "failed"}, ei : Ephemeral \cup {None},
     er : Ephemeral \cup {None}, epoch : Nat, used : Nat]

ASSUME NoneAssumption == None \notin SessionType

Established(s) == s # None /\ s.st = "transport"

Fail(s) == [s EXCEPT !.st = "failed"]

(* Mutant: the responder's own key is not checked.                         *)
FinishesAny(s, m) == m.kind = "msg3" /\ m.ei = s.ei

(* The pair of keys the third message proves must be the session's.        *)
Finishes(s, m) == m.kind = "msg3" /\ m.ei = s.ei /\ m.er = s.er

(* read_handshake_message.  The first message is not authenticated: bytes  *)
(* after its key are an unencrypted payload.                               *)
Read(s, m) ==
    CASE s.st = "start" ->
            [s EXCEPT !.st = "read", !.ei = IF m.kind = "msg1" THEN m.ei ELSE Garbage]
      [] s.st = "wrote" /\ Finishes(s, m) -> [s EXCEPT !.st = "transport"]
      [] OTHER -> Fail(s)

(* write_handshake_message of the second message.                          *)
Write(s, er) == [s EXCEPT !.st = "wrote", !.er = er]

(* encrypt, n times: _maybe_rekey replaces the keys of both directions,     *)
(* and starts counting again, before a message that would exceed the limit.*)
Encrypted(s, n) ==
    IF n = 0 THEN s
    ELSE [s EXCEPT !.epoch = @ + (s.used + n - 1) \div MsgLimit,
                   !.used = 1 + ((s.used + n - 1) % MsgLimit)]

(* A session that is an hour old is rekeyed before the next message.       *)
Aged(s) == [s EXCEPT !.used = MsgLimit]

Keys(s) == [ei |-> s.ei, er |-> s.er, epoch |-> s.epoch]

(* decrypt succeeds when the message is under the session's keys.          *)
Decrypts(s, keys) == Established(s) /\ keys = Keys(s)

=============================================================================
