---------------------------- MODULE MCChatPipeline ----------------------------
(* ChatPipeline with values for TLC. *)
EXTENDS ChatPipeline, TLC

CONSTANTS r1, r2, r3, m1, m2, m3, m4

\* Two requests with the same key and one with another.
MCCacheKey == r1 :> "a" @@ r2 :> "a" @@ r3 :> "b"

\* A chain that is longer than a request may try, and chains that start with
\* m4, which is in the catalog and has no provider.
MCChains == { <<>>, <<m1, m2, m3>>, <<m4, m1>>, <<m4>> }

\* One short chain.
MCShortChains == { <<m1, m2>> }
=============================================================================
