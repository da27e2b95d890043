------------------------------- MODULE MCWire -------------------------------
(* Instances of Wire for TLC. *)
EXTENDS Wire

\* A target that closes at once; a TLS session: a handshake record of two bytes,
\* then application data; and a stream that never looks like TLS.
MCSources == { <<>>,
               <<"handshake", "other", "application", "other">>,
               <<"other", "other", "other", "other", "other">> }
==============================================================================
