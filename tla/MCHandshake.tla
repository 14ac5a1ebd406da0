---------------------------- MODULE MCHandshake -----------------------------
(* Handshake for TLC: a manager, a publisher and a subscriber.            *)
EXTENDS Handshake

CONSTANTS man1, pub, sub, none

OneManager == {man1}
OnePublisher == {pub}
OneSubscriber == {sub}
=============================================================================
