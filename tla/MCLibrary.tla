------------------------------ MODULE MCLibrary ------------------------------
(***************************************************************************)
(* The allocator, the key generator, the array and the instance of MCText, *)
(* which do not call one another, checked in one run.  subject is chosen   *)
(* once: a behaviour is one of that component, of the stream, or one       *)
(* conversion, so that their state spaces add up and do not multiply.      *)
(***************************************************************************)
EXTENDS MCText, EMalloc, KeyGenerator, Array

(* Every size up to and past what the first node describes, both sides of  *)
(* the node's word and of the memory, and two of 2^32 bytes and more.      *)
MCSizes == 0..(Top + 1) \union (BlockWord - 1)..(BlockWord + 1)
           \union MemorySize..(MemorySize + 1) \union {ArgWord + 1, ArgWord + 2}

MCCaps == {0, 8}

Only(s) ==
    /\ subject.kind = s /\ UNCHANGED conversion_vars
    /\ s # "memory" => UNCHANGED emalloc_vars
    /\ s # "keys"   => UNCHANGED key_vars
    /\ s # "array"  => UNCHANGED array_vars
    /\ s # "stream" => UNCHANGED estream_vars

library_vars == <<emalloc_vars, key_vars, array_vars>>

(* The components that are not the subject start in one state only.        *)
MCInit ==
    /\ \/ TextInit
       \/ /\ EStreamInit /\ memory /\ input = CHOOSE i \in Inputs : TRUE
          /\ subject \in [kind : {"memory", "keys", "array"}] /\ outcome = <<>>
    /\ subject.kind = "keys" \/ store = NoFile
    /\ subject.kind = "array" \/ (e_buf = <<>> /\ e_size = 0)
    /\ EMallocInit /\ KeyInit /\ ArrayInit

MCNext == \/ Only("memory") /\ EMallocNext
          \/ Only("keys") /\ KeyNext
          \/ Only("array") /\ ArrayNext
          \/ Only("stream") /\ EStreamNext
          \/ (Convert \/ ConvertFormats) /\ UNCHANGED <<library_vars, estream_vars>>

mc_vars == <<library_vars, estream_vars, conversion_vars>>

(* The fairness of the streams, for the behaviours that are theirs.        *)
MCFairness == /\ WF_mc_vars(Only("stream") /\ ReaderSteps)
              /\ WF_mc_vars(Only("stream") /\ Close)

MCSpec == MCInit /\ [][MCNext]_mc_vars /\ MCFairness
=============================================================================
