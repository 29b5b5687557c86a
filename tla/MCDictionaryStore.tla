-------------------------- MODULE MCDictionaryStore --------------------------
(* One session, whose state may be evicted and made anew, and two callers.   *)
EXTENDS DictionaryStore
=============================================================================
