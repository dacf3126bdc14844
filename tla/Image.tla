-------------------------------- MODULE Image --------------------------------
(***************************************************************************)
(* The words of the Smalltalk runtime's objects, and the calls of its      *)
(* functions.  The runtime is Lisp that the machine executes: one call is  *)
(* executed at a time, and is a sequence of stores, each of one word.  An  *)
(* execution stops at the instruction limit of main.cpp, wherever it is:   *)
(* the stores that are left are then never made, and the next expression   *)
(* goes on with the words as they are.                                     *)
(*                                                                         *)
(* Addresses, tagged integers and IDs are numbers; a word is named by an   *)
(* object and its place in it, from 0 on.                                  *)
(***************************************************************************)
EXTENDS Naturals, Sequences, FiniteSetsExt

CONSTANTS MaxCalls,   \* bound: how many calls are made
          MaxStops    \* bound: how many of them are stopped

VARIABLES memory,   \* from objects to their words
          call,     \* the call that is executed, or NoCall
          calls,    \* how many were made
          stops     \* how many were stopped

imageVars == <<memory, call, calls, stops>>

NULL == 0

NoCall == [op |-> "none"]
Idle == call = NoCall

Put(object, i, value) == [object |-> object, place |-> i, value |-> value]
Words(size) == [i \in 0..size-1 |-> NULL]

Enter(op, subject, stores, answer) ==
  /\ Idle
  /\ call' = [op |-> op, subject |-> subject, stores |-> stores, answer |-> answer]
  /\ UNCHANGED <<memory, stops>>

CountCall == calls < MaxCalls /\ calls' = calls + 1

\* A call by an expression
Begin(op, subject, stores, answer) == CountCall /\ Enter(op, subject, stores, answer)

Store ==
  /\ ~Idle /\ call.stores # <<>>
  /\ LET put == Head(call.stores) IN
       memory' = [memory EXCEPT ![put.object][put.place] = put.value]
  /\ call' = [call EXCEPT !.stores = Tail(@)]
  /\ UNCHANGED <<calls, stops>>

Returns(op) ==
  /\ ~Idle /\ call.op = op /\ call.stores = <<>>
  /\ call' = NoCall /\ UNCHANGED <<memory, calls, stops>>

\* The instruction limit.
Stop ==
  /\ ~Idle /\ stops < MaxStops /\ stops' = stops + 1
  /\ call' = NoCall /\ UNCHANGED <<memory, calls>>

-----------------------------------------------------------------------------
(***************************************************************************)
(* Hash tables: buckets of three words, searched from the home bucket on   *)
(* and around.  Nothing is ever removed, so no bucket is HASH_DELETED.  A  *)
(* table is an object and the place of its first word.                     *)
(***************************************************************************)
HASH_BUCKET_SIZE == 3
HASH_KEY_OFFSET == 0
HASH_VALUE_OFFSET == 1
HASH_OCCUPIED_OFFSET == 2

HASH_EMPTY == 0
HASH_OCCUPIED == 1

Place(table, b, offset) == table[2] + b * HASH_BUCKET_SIZE + offset
Bucket(table, b, offset) == memory[table[1]][Place(table, b, offset)]
PutBucket(table, b, offset, value) == Put(table[1], Place(table, b, offset), value)

Occupied(table, size) ==
  {b \in 0..size-1 : Bucket(table, b, HASH_OCCUPIED_OFFSET) = HASH_OCCUPIED}

\* The buckets at which a search for these keys may end.
Ends(table, size, keys) ==
  {b \in 0..size-1 : Bucket(table, b, HASH_OCCUPIED_OFFSET) = HASH_OCCUPIED
                       => Bucket(table, b, HASH_KEY_OFFSET) \in keys}

FirstEnd(size, home, ends) ==
  (home + Min({k \in 0..size-1 : (home + k) % size \in ends})) % size

\* The value of the first of the keys, NULL if an empty bucket or nothing is found.
Find(table, size, home, keys) ==
  LET ends == Ends(table, size, keys)
      b == FirstEnd(size, home, ends)
  IN IF ends = {} \/ Bucket(table, b, HASH_OCCUPIED_OFFSET) = HASH_EMPTY THEN NULL
     ELSE Bucket(table, b, HASH_VALUE_OFFSET)

\* A table that is full takes nothing, and says so to no one.
Add(table, size, home, keys, key, value) ==
  LET ends == Ends(table, size, keys)
      b == FirstEnd(size, home, ends)
  IN IF ends = {} THEN <<>>
     ELSE IF Bucket(table, b, HASH_OCCUPIED_OFFSET) = HASH_OCCUPIED
     THEN <<PutBucket(table, b, HASH_VALUE_OFFSET, value)>>
     ELSE <<PutBucket(table, b, HASH_KEY_OFFSET, key),
            PutBucket(table, b, HASH_VALUE_OFFSET, value),
            PutBucket(table, b, HASH_OCCUPIED_OFFSET, HASH_OCCUPIED)>>
=============================================================================
