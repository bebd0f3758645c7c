---------------------------- MODULE MCRedisMutex ----------------------------
(***************************************************************************)
(* Two callers of two calls each, whose commands fail in every way.        *)
(***************************************************************************)
EXTENDS RedisMutex
=============================================================================
