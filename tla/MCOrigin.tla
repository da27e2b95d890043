------------------------------- MODULE MCOrigin -------------------------------
(* Instances of Server for TLC: each scenario opens one part of it. *)
EXTENDS Server

MCAlpnOrder == <<"h2", "http/1.1">>

\* Nothing happens: what a scenario does not open stays closed.
Closed ==
  [conns |-> {1}, tls |-> FALSE, alg |-> "p256", nextAlg |-> "p256", reloads |-> 1,
   hellos |-> {}, faults |-> FALSE, stops |-> FALSE, h2 |-> FALSE, records |-> 0,
   pieces |-> {}, replies |-> {}, appRecords |-> 0, traffic |-> {}, writes |-> 0,
   breaks |-> FALSE, requests |-> {}, frames |-> 0, placement |-> "body", host |-> TRUE]

-------------------------------------------------------------------------------
(* Records and ClientHellos.                                                  *)

Rec(key, type, body, len, msg, app) ==
  [key |-> key, seq |-> 0, type |-> type, body |-> body, len |-> len, msg |-> msg, app |-> app]
Piece(n) == Rec("plain", "handshake", <<>>, n, "none", FALSE)
Ccs == Rec("ccs", "ccs", <<>>, 1, "none", FALSE)
Reply(type, msg) == Rec("hs", type, <<>>, 1, msg, FALSE)
App(key, type, n) == Rec(key, type, [i \in 1 .. n |-> i], n + 1, "none", TRUE)

Ext(type, good, list) == [type |-> type, good |-> good, list |-> list]
Share(group, usable) == [group |-> group, usable |-> usable]
Hello ==
  [msg |-> "client_hello", len |-> 1, whole |-> TRUE, long_sid |-> FALSE,
   suites |-> <<"aes128", "aes256">>,
   exts |-> << Ext("supported_versions", TRUE, <<"1.2", "1.3">>),
               Ext("signature_algorithms", TRUE, <<"pss384", "pss256", "ecdsa256">>),
               Ext("key_share", TRUE, <<Share("p256", TRUE), Share("x25519", TRUE)>>),
               Ext("alpn", TRUE, <<"http/1.1", "h2">>) >>]
With(i, e) == [Hello EXCEPT !.exts[i] = e]
Hellos ==
  { Hello, [Hello EXCEPT !.len = 4], [Hello EXCEPT !.len = 3], [Hello EXCEPT !.msg = "other"],
    [Hello EXCEPT !.whole = FALSE], [Hello EXCEPT !.long_sid = TRUE],
    [Hello EXCEPT !.suites = <<"other">>],
    [Hello EXCEPT !.exts = Append(@, Ext("supported_versions", FALSE, <<>>))],
    [Hello EXCEPT !.exts = Append(@, Ext("alpn", TRUE, <<"other">>))],
    With(2, Ext("signature_algorithms", FALSE, <<>>)),
    With(2, Ext("signature_algorithms", TRUE, <<"ed25519">>)),
    With(3, Ext("key_share", TRUE, <<Share("p256", TRUE)>>)),
    With(3, Ext("key_share", TRUE, <<Share("x25519", FALSE), Share("x25519", TRUE)>>)) }

Replies == {Ccs, Reply("handshake", "good"), Reply("handshake", "bad"), Reply("zero", "none"),
            Reply("data", "none"), Rec("hs", "data", <<>>, 4, "none", FALSE)}

Established == [Closed EXCEPT !.tls = TRUE, !.hellos = {Hello}, !.records = 2,
                              !.pieces = {Piece(3)}, !.replies = {Reply("handshake", "good")}]

-------------------------------------------------------------------------------
(* Requests.                                                                  *)

Pad(value) == [given |-> TRUE, param |-> TRUE, value |-> value]
NoPad == [given |-> FALSE, param |-> FALSE, value |-> <<>>]
NoParam == [given |-> TRUE, param |-> FALSE, value |-> <<>>]
Post ==
  [big |-> FALSE, path |-> "base", segs |-> <<"s", "1">>, host |-> "same", authority |-> "none",
   method |-> "POST", referer |-> Pad(<<"x", "x">>), query |-> NoPad, etag |-> 0,
   headers |-> <<>>, cookies |-> <<>>, alphabet |-> TRUE, hint |-> NoHint]
Get == [Post EXCEPT !.method = "GET", !.segs = <<"s">>]

Values == UNION {[1 .. n -> {"x", "%", "h"}] : n \in 0 .. 4}
Routed ==
  { [Post EXCEPT !.method = method, !.segs = segs] :
      method \in {"GET", "POST", "HEAD", "OPTIONS"},
      segs \in {<<>>, <<"">>, <<"s">>, <<"s", "">>, <<"s", "1", "z">>, <<"s", "bad">>, <<"", "1">>} }
  \cup { [p EXCEPT !.referer = Pad(value)] : p \in {Get}, value \in Values }
  \cup { [p EXCEPT !.referer = referer, !.query = query] :
           p \in {Get, Post, [Post EXCEPT !.method = "OPTIONS"]},
           referer \in {NoPad, NoParam}, query \in {NoPad, Pad(<<"x", "x">>)} }
  \cup { [p EXCEPT !.path = path, !.host = host, !.authority = authority, !.big = big] :
           p \in {Get, Post}, path \in {"base", "/", "/none", "/healthz"},
           host \in {"none", "same", "other"}, authority \in {"none", "same"}, big \in BOOLEAN }
  \cup { [p EXCEPT !.path = path, !.etag = etag] :
           p \in {Get, [Get EXCEPT !.method = "HEAD"], Post},
           path \in {"/", "/none"}, etag \in {0, 200, 404, 405} }

Chunks == {<<>>} \cup {<<[len |-> n, text |-> TRUE]>> : n \in 1 .. 4}
            \cup {<<[len |-> 2, text |-> TRUE], [len |-> 1, text |-> text]>> : text \in BOOLEAN}
            \cup {<<[len |-> 4, text |-> TRUE], [len |-> 4, text |-> TRUE]>>}
TextChunks == {c \in Chunks : \A i \in DOMAIN c : c[i].text}
Uploads(headers, cookies, hints) ==
  { [Post EXCEPT !.headers = h, !.cookies = k, !.alphabet = a, !.hint = n] :
      h \in headers, k \in cookies, a \in BOOLEAN, n \in hints }
BodyUploads == Uploads({<<>>}, {<<>>}, {NoHint, 0, 2, 3})
HeaderUploads == Uploads(Chunks, {<<>>}, {NoHint})
CookieUploads == Uploads({<<>>}, TextChunks, {NoHint})
AutoUploads == Uploads(Chunks, TextChunks, {NoHint, 2})
Bodies == { [Post EXCEPT !.headers = <<[len |-> 2, text |-> TRUE]>>, !.hint = n] :
              n \in {NoHint, 0, 1, 2} }

-------------------------------------------------------------------------------
\* accept, its errors and the shutdown, with three clients
Accepting == [Closed EXCEPT !.conns = {1, 2, 3}, !.faults = TRUE, !.stops = TRUE]

\* every ClientHello, in one piece; identities of two kinds; a broken socket
Negotiating ==
  [Closed EXCEPT !.tls = TRUE, !.hellos = Hellos, !.records = 3, !.reloads = 2,
                 !.alg = "rsa", !.nextAlg = "p256", !.breaks = TRUE,
                 !.pieces = {Piece(3)}, !.replies = Replies]

\* a ClientHello in pieces: whole, at the limit, beyond it, another message
Reassembling ==
  [Closed EXCEPT !.tls = TRUE, !.records = 4,
                 !.hellos = {Hello, [Hello EXCEPT !.len = 3], [Hello EXCEPT !.len = 4],
                             [Hello EXCEPT !.msg = "other"]},
                 !.pieces = {Piece(n) : n \in {0, 1, 2, 4}}
                              \cup {Ccs, Rec("plain", "other", <<>>, 1, "none", FALSE)},
                 !.replies = {Reply("handshake", "good")}]

\* application data from the client: any two records, longer streams of the usual ones
ReadingAny ==
  [Established EXCEPT !.appRecords = 2,
     !.traffic = {App("client", "data", 0), App("client", "data", 2), App("client", "alert", 0),
                  App("client", "zero", 0), App("client", "handshake", 0),
                  App("damaged", "data", 1), App("client", "data", 3)}]
ReadingUsual ==
  [Established EXCEPT !.appRecords = 3,
     !.traffic = {App("client", "data", 0), App("client", "data", 1), App("client", "alert", 0)}]

Writing == [Established EXCEPT !.writes = 3, !.breaks = TRUE]

\* requests: all routes; downloads cut by a shutdown, in HTTP/1 and HTTP/2; uploads
RoutingAll == [Closed EXCEPT !.requests = Routed]
Downloads1 == [Closed EXCEPT !.requests = {Get}, !.stops = TRUE, !.conns = {1, 2}]
Downloads2 == [Closed EXCEPT !.requests = {Get}, !.stops = TRUE, !.host = FALSE, !.h2 = TRUE]
Framing == [Closed EXCEPT !.requests = Bodies, !.frames = 3, !.placement = "auto", !.h2 = TRUE]
InBody == [Closed EXCEPT !.requests = BodyUploads, !.frames = 2, !.placement = "body"]
InHeader == [Closed EXCEPT !.requests = HeaderUploads, !.frames = 1, !.placement = "header"]
InCookie == [Closed EXCEPT !.requests = CookieUploads, !.frames = 1, !.placement = "cookie"]
InAll == [Closed EXCEPT !.requests = AutoUploads, !.frames = 1, !.placement = "auto"]

MCScenarios ==
  << Accepting, Negotiating, Reassembling, ReadingAny, ReadingUsual, Writing, RoutingAll,
     Downloads1, Downloads2, Framing, InBody, InHeader, InCookie, InAll >>
===============================================================================
