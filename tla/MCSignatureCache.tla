-------------------------- MODULE MCSignatureCache --------------------------
(* Instances of SignatureCache for TLC: a signature with two jobs and one   *)
(* without share a bucket, another one has a bucket of its own.             *)
EXTENDS SignatureCache, TLC

CONSTANTS s1, s2, s3

MCBucket == (s1 :> 1) @@ (s2 :> 1) @@ (s3 :> 2)
MCPieces == (s1 :> 2) @@ (s2 :> 0) @@ (s3 :> 1)
=============================================================================
