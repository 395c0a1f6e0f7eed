---------------------------- MODULE MCAppReconcile ----------------------------
(* Instances of AppReconcile for TLC: three applications, one of them with *)
(* two configs of different tags, and a fourth whose image has the         *)
(* reference of another one as a prefix.                                   *)
EXTENDS AppReconcile

CONSTANTS db1, web1, web2, log1, webAdmin1

(* References in the order of strings.  "db:1" < "log:1" < "web:1" < "web:2" *)
(* either with or without the tags.                                        *)
MCConfig == {db1, log1, web1, web2}
MCApplication ==
  [c \in MCConfig |-> CASE c = db1 -> "db" [] c = log1 -> "log" [] OTHER -> "web"]
MCReference ==
  [c \in MCConfig |-> CASE c = db1 -> 1 [] c = log1 -> 2 [] c = web1 -> 3 [] OTHER -> 4]
MCStripped ==
  [c \in MCConfig |-> CASE c = db1 -> 1 [] c = log1 -> 2 [] OTHER -> 3]

(* The hypotheses under which it is proved that a pass keeps what is       *)
(* wanted (AppReconcileProofs) hold of this instance; the first is what    *)
(* the next one lacks.                                                     *)
ASSUME MCOrdersAgree ==
  \A c, d \in MCConfig : MCReference[c] < MCReference[d] => MCStripped[c] <= MCStripped[d]
ASSUME MCOneApplicationPerImage ==
  \A c, d \in MCConfig : MCStripped[c] = MCStripped[d] => MCApplication[c] = MCApplication[d]

(* "web-admin:1" < "web:1", for '-' comes before ':', but "web" < "web-admin". *)
MCPrefixConfig == {web1, webAdmin1}
MCPrefixApplication ==
  [c \in MCPrefixConfig |-> IF c = web1 THEN "web" ELSE "web-admin"]
MCPrefixReference == [c \in MCPrefixConfig |-> IF c = web1 THEN 2 ELSE 1]
MCPrefixStripped == [c \in MCPrefixConfig |-> IF c = web1 THEN 1 ELSE 2]
===============================================================================
