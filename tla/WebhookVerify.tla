--------------------------- MODULE WebhookVerify ---------------------------
(***************************************************************************)
(* The signature of an event trigger's callback, webhook_verify.py: the    *)
(* sender signs, the receiver verifies by its own clock.  A header is a    *)
(* sequence of parts, key and value; HMAC-SHA256 is an injective function. *)
(***************************************************************************)
EXTENDS Integers, SequencesExt

\* Values of a part: a number, a digest, ASCII that is neither, and other text.
Number(n) == [kind |-> "number", of |-> n]
Mac(secret, timestamp, payload) == [kind |-> "mac", of |-> <<secret, timestamp, payload>>]
Nothing == [kind |-> "empty", of |-> 0]
Text == [kind |-> "text", of |-> 0]
NonAscii == [kind |-> "non_ascii", of |-> 0]

Part(key, value) == [key |-> key, value |-> value]

SignWebhook(payload, secret, timestamp) ==
  <<Part("t", Number(timestamp)), Part("v1", Mac(secret, timestamp, payload))>>

\* Mutant: of the parts with one key the first counts.
Piece_FirstWins(header, key) ==
  LET at == {i \in DOMAIN header : header[i].key = key}
  IN  IF at = {} THEN Nothing ELSE header[Min(at)].value

\* A dict of the parts: of those with one key the last counts, and none is nothing.
Piece(header, key) ==
  LET at == {i \in DOMAIN header : header[i].key = key}
  IN  IF at = {} THEN Nothing ELSE header[Max(at)].value

Abs(n) == IF n < 0 THEN -n ELSE n

\* The comparison of digests raises a TypeError on a string that is not ASCII.
VerifyWebhook(payload, header, secret, tolerance, now) ==
  LET timestamp == Piece(header, "t")
      signature == Piece(header, "v1")
  IN  CASE tolerance < 0 -> "ValueError"
        [] tolerance >= 0 /\ (timestamp.kind # "number" \/ signature = Nothing) -> "refused"
        [] OTHER ->
             IF Abs(now - timestamp.of) > tolerance THEN "refused"
             ELSE IF signature.kind = "non_ascii" THEN "TypeError"
             ELSE IF signature = Mac(secret, timestamp.of, payload) THEN "verified"
             ELSE "refused"
=============================================================================
