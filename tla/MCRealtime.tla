----------------------------- MODULE MCRealtime -----------------------------
(* Three requests: two about the market of the stream, in its process, and *)
(* one about another market, in another process.                           *)
EXTENDS Realtime

CONSTANTS m1, m2, r1, r2, r3, s1, here, there

MCKeyOf   == [r \in Publication |-> IF r = r2 THEN m2 ELSE m1]
MCTopicOf == [s \in Stream |-> IF s = s1 THEN m1 ELSE All]
MCHome    == [x \in Publication \cup Stream |-> IF x = r2 THEN there ELSE here]
=============================================================================
