---------------------------- MODULE KeyGenerator ----------------------------
(***************************************************************************)
(* UniqueKeyGenerator of lib/key_generator.h as the HTTP server uses it    *)
(* (lib/web/http/http.h:115): a counter read from a file when the server   *)
(* starts, incremented for every key, and written back by the destructor.  *)
(* The server assigns its generator from temporaries (there, and again in  *)
(* http_test/main.cpp:108), whose destructors write the file at the start  *)
(* as well.                                                                *)
(*                                                                         *)
(* Threads call next() and nextAsInteger(); the process may be killed      *)
(* between any two steps.  A section under the generator's mutex is one    *)
(* step: next() is entirely inside it, nextAsInteger() reads its result    *)
(* after it.                                                               *)
(***************************************************************************)
EXTENDS Integers, Sequences, FiniteSets, SequencesExt

CONSTANTS
    Callers,        \* threads that ask for keys
    NoFile,         \* the file at file_path does not exist
    Width,          \* hex digits of a key, 16 in the code
    FirstKeys,      \* values an earlier run of the server may have stored
    AsIntegers,     \* whether nextAsInteger() is called
    MaxKeys,        \* bound on the calls of next() and nextAsInteger()
    MaxCrashes      \* bound on kills

(* The powers of 16, and 2^64 in the code: current is a uint64_t.          *)
Power[n \in Nat] == IF n = 0 THEN 1 ELSE 16 * Power[n - 1]
Word == Power[Width]

ASSUME KeyGeneratorAssumption ==
    /\ IsFiniteSet(Callers)
    /\ NoFile \notin Seq(Nat)
    /\ Width \in Nat \ {0}
    /\ FirstKeys \subseteq 0..(Word - 1)
    /\ AsIntegers \in BOOLEAN
    /\ MaxKeys \in Nat /\ MaxCrashes \in Nat

VARIABLES
    store,     \* content of the file, a sequence of characters
    current,   \* this->current
    phase,     \* where the server's generator is in its life
    pc,        \* where each caller is in nextAsInteger()
    strings,   \* the keys next() returned, oldest first
    integers,  \* the keys nextAsInteger() returned, oldest first
    durable,   \* keys up to the counter value last written
    crashes

key_vars == <<store, current, phase, pc, strings, integers, durable, crashes>>
issued == <<strings, integers>>

-----------------------------------------------------------------------------
(* Characters: '0' is 48, 'A' is 65. *)

HexChar(d) == IF d < 10 THEN 48 + d ELSE 65 + d - 10

(* The digits of value, most significant first. *)
valToHexCharArray(value) ==
    [i \in 1..Width |-> HexChar((value \div Power[Width - i]) % 16)]

isDecimal(c) == c \in 48..57
isUpperHex(c) == c \in 65..70
HexValue(c) == IF isDecimal(c) THEN c - 48 ELSE c - 65 + 10

(* refresh() reads Width characters of a file that exists; a shorter file  *)
(* or another character makes it throw.                                    *)
ReadableKey(s) ==
    s # NoFile => /\ Len(s) >= Width
                  /\ \A i \in 1..Width : isDecimal(s[i]) \/ isUpperHex(s[i])
Parsed(s) == FoldLeft(LAMBDA v, c : (v * 16 + HexValue(c)) % Word, 0,
                      SubSeq(s, 1, Width))

-----------------------------------------------------------------------------
KeyInit ==
    /\ \/ store = NoFile /\ durable = {}
       \/ \E v \in FirstKeys : store = valToHexCharArray(v) /\ durable = 1..v
    /\ current = 0
    /\ phase = "down"
    /\ pc = [c \in Callers |-> "idle"]
    /\ strings = <<>> /\ integers = <<>>
    /\ crashes = 0

(* Mutation: a file that exists is not read. *)
ConstructIgnoresFile ==
    /\ phase = "down" /\ ReadableKey(store)
    /\ current' = 0
    /\ phase' = "copied"
    /\ UNCHANGED <<store, pc, issued, durable, crashes>>

(* The constructor of the temporary: refresh(). *)
Construct ==
    /\ phase = "down" /\ ReadableKey(store)
    /\ current' = IF store = NoFile THEN 0 ELSE Parsed(store)
    /\ phase' = "copied"
    /\ UNCHANGED <<store, pc, issued, durable, crashes>>

(* refresh() throws and the server does not start. *)
ConstructThrows ==
    /\ phase = "down" /\ ~ReadableKey(store)
    /\ phase' = "unusable"
    /\ UNCHANGED <<store, current, pc, issued, durable, crashes>>

(* flush() in a destructor: opening the file for writing truncates it.     *)
FlushOpens ==
    /\ phase \in {"copied", "stopping"}
    /\ store' = <<>>
    /\ phase' = IF phase = "copied" THEN "starting" ELSE "ending"
    /\ UNCHANGED <<current, pc, issued, durable, crashes>>

(* At the start once for every temporary, before the first key is asked    *)
(* for.                                                                    *)
FlushWrites ==
    /\ phase \in {"starting", "ending"}
    /\ store' = valToHexCharArray(current)
    /\ durable' = durable \union 1..current
    /\ phase' \in IF phase = "starting" THEN {"copied", "up"} ELSE {"down"}
    /\ UNCHANGED <<current, pc, issued, crashes>>

Asked == Len(strings) + Len(integers) + Cardinality({c \in Callers : pc[c] = "read"})

(* Mutation: the key is read before the increment. *)
nextPostIncrement(c) ==
    /\ phase = "up" /\ pc[c] = "idle" /\ Asked < MaxKeys
    /\ current' = (current + 1) % Word
    /\ strings' = Append(strings, current)
    /\ UNCHANGED <<store, phase, pc, integers, durable, crashes>>

next(c) ==
    /\ phase = "up" /\ pc[c] = "idle" /\ Asked < MaxKeys
    /\ current' = (current + 1) % Word
    /\ strings' = Append(strings, current')
    /\ UNCHANGED <<store, phase, pc, integers, durable, crashes>>

(* nextAsInteger() up to the unlock ... *)
nextAsInteger(c) ==
    /\ AsIntegers /\ phase = "up" /\ pc[c] = "idle" /\ Asked < MaxKeys
    /\ current' = (current + 1) % Word
    /\ pc' = [pc EXCEPT ![c] = "read"]
    /\ UNCHANGED <<store, phase, issued, durable, crashes>>

(* ... and its unlocked read of current. *)
ReturnCurrent(c) ==
    /\ phase = "up" /\ pc[c] = "read"
    /\ integers' = Append(integers, current)
    /\ pc' = [pc EXCEPT ![c] = "idle"]
    /\ UNCHANGED <<store, current, phase, strings, durable, crashes>>

(* The server's generator is destroyed; no call is in progress. *)
Destroy ==
    /\ phase = "up" /\ \A c \in Callers : pc[c] = "idle"
    /\ phase' = "stopping"
    /\ UNCHANGED <<store, current, pc, issued, durable, crashes>>

(* The process is killed: no destructor runs. *)
Crash ==
    /\ phase \notin {"down", "unusable"} /\ crashes < MaxCrashes
    /\ phase' = "down"
    /\ pc' = [c \in Callers |-> "idle"]
    /\ current' = 0
    /\ crashes' = crashes + 1
    /\ UNCHANGED <<store, issued, durable>>

KeyNext ==
    \/ Construct \/ ConstructThrows \/ FlushOpens \/ FlushWrites
    \/ Destroy \/ Crash
    \/ \E c \in Callers : next(c) \/ nextAsInteger(c) \/ ReturnCurrent(c)

KeySpec == KeyInit /\ [][KeyNext]_key_vars

-----------------------------------------------------------------------------
(* Properties. *)

Distinct(s) == \A i, j \in DOMAIN s : s[i] = s[j] => i = j

(* Every variable has its type and the file holds nothing but hex digits.  *)
KeyTypeOK ==
    /\ store # NoFile => \A i \in DOMAIN store : isDecimal(store[i]) \/ isUpperHex(store[i])
    /\ current \in 0..(Word - 1)
    /\ phase \in {"down", "copied", "starting", "up", "stopping", "ending",
                  "unusable"}
    /\ pc \in [Callers -> {"idle", "read"}]

(* Without a crash, next() never returns a key twice, also across restarts *)
(* of the server and with other threads in nextAsInteger().                *)
StringKeysUnique == crashes = 0 => Distinct(strings)

(* A crash may lose keys given out since the file was last written, never  *)
(* older ones: no key that a completed flush() covers is returned again.   *)
FlushedKeysNotReissued ==
    [][\A i \in DOMAIN strings' \ DOMAIN strings : strings'[i] \notin durable]_key_vars

(* UniqueKeyGenerator: nextAsInteger() does not return a key twice ("key   *)
(* != i + 1" fails the test, key_generator_test.cpp:40).                   *)
IntegerKeysUnique == crashes = 0 => Distinct(integers)
=============================================================================
