---------------------------- MODULE OutputBuffer ----------------------------
(***************************************************************************)
(* CreateOutputBuffer() and FinalizeExternalBuffer(): who owns the bytes   *)
(* of an encoded message once JavaScript has its Buffer.  The allocator    *)
(* reuses a freed block, so a Buffer over freed memory would come to show  *)
(* another message.                                                        *)
(***************************************************************************)
EXTENDS Integers, FiniteSets

CONSTANTS Calls,     \* the calls that encode
          Blocks,    \* memory
          Messages,  \* encoded messages
          NoBlock,   \* not a block
          Unused,    \* what a free block holds
          size,      \* the size of a message
          kMinExternalBufferSize

ASSUME OutputBufferAssumption ==
  /\ NoBlock \notin Blocks /\ Unused \notin Messages
  /\ size \in [Messages -> Nat] /\ kMinExternalBufferSize \in Nat

VARIABLES
  memory,   \* what each block holds
  state,    \* how far the call and its Buffer have come
  encoded,  \* the block of the call's byte vector
  buffer,   \* the block under the call's Buffer
  message   \* what the holder of the Buffer expects in it

bvars == <<memory, state, encoded, buffer, message>>

States == {"absent", "encoded",  \* EncodeJavaScriptValue() has returned
           "held", "dropped",    \* JavaScript can, cannot reach the Buffer
           "refused", "gone"}

External(c) == size[message[c]] >= kMinExternalBufferSize

Move(c, from, to) == state[c] = from /\ state' = [state EXCEPT ![c] = to]

-----------------------------------------------------------------------------
(* The call's message is in a std::vector.                                 *)
encode(c) ==
  /\ Move(c, "absent", "encoded")
  /\ \E b \in Blocks, m \in Messages :
       /\ memory[b] = Unused
       /\ memory' = [memory EXCEPT ![b] = m]
       /\ encoded' = [encoded EXCEPT ![c] = b]
       /\ message' = [message EXCEPT ![c] = m]
  /\ UNCHANGED buffer

(* Buffer::Copy: the bytes go to memory of Node's, and the vector is       *)
(* destroyed on return.                                                    *)
copySmall(c) ==
  /\ Move(c, "encoded", "held") /\ ~External(c)
  /\ \E b \in Blocks :
       /\ memory[b] = Unused
       /\ memory' = [memory EXCEPT ![b] = memory[encoded[c]],
                                   ![encoded[c]] = Unused]
       /\ buffer' = [buffer EXCEPT ![c] = b]
  /\ encoded' = [encoded EXCEPT ![c] = NoBlock]
  /\ UNCHANGED message

(* Mutant: the Buffer is put over the vector of the caller, which destroys *)
(* it.                                                                     *)
createExternalUnmoved(c) ==
  /\ Move(c, "encoded", "held") /\ External(c)
  /\ buffer' = [buffer EXCEPT ![c] = encoded[c]]
  /\ memory' = [memory EXCEPT ![encoded[c]] = Unused]
  /\ encoded' = [encoded EXCEPT ![c] = NoBlock]
  /\ UNCHANGED message

(* The vector is moved to the heap, where the finalizer will find it.      *)
createExternal(c) ==
  /\ Move(c, "encoded", "held") /\ External(c)
  /\ buffer' = [buffer EXCEPT ![c] = encoded[c]]
  /\ encoded' = [encoded EXCEPT ![c] = NoBlock]
  /\ UNCHANGED <<memory, message>>

(* Mutant: the owner is forgotten when Node refuses.                       *)
refuseAndForget(c) ==
  /\ Move(c, "encoded", "refused") /\ External(c)
  /\ encoded' = [encoded EXCEPT ![c] = NoBlock]
  /\ UNCHANGED <<memory, buffer, message>>

(* Node refuses the external buffer: the owner is deleted, an Error thrown *)
refuse(c) ==
  /\ Move(c, "encoded", "refused") /\ External(c)
  /\ memory' = [memory EXCEPT ![encoded[c]] = Unused]
  /\ encoded' = [encoded EXCEPT ![c] = NoBlock]
  /\ UNCHANGED <<buffer, message>>

-----------------------------------------------------------------------------
(* JavaScript and its collector.                                           *)
userWrites(c) ==
  /\ state[c] = "held"
  /\ \E m \in Messages :
       /\ size[m] = size[message[c]]
       /\ memory' = [memory EXCEPT ![buffer[c]] = m]
       /\ message' = [message EXCEPT ![c] = m]
  /\ UNCHANGED <<state, encoded, buffer>>

drop(c) ==
  Move(c, "held", "dropped") /\ UNCHANGED <<memory, encoded, buffer, message>>

(* The Buffer is collected.  Node frees its own memory; for an external    *)
(* Buffer it runs FinalizeExternalBuffer().                                *)
freed(c) == memory' = [memory EXCEPT ![buffer[c]] = Unused]

(* Mutant: the finalizer deletes nothing.                                  *)
FinalizeNothing(c) == UNCHANGED memory

FinalizeExternalBuffer(c) == freed(c)

collect(c) ==
  /\ Move(c, "dropped", "gone")
  /\ IF External(c) THEN FinalizeExternalBuffer(c) ELSE freed(c)
  /\ buffer' = [buffer EXCEPT ![c] = NoBlock]
  /\ UNCHANGED <<encoded, message>>

-----------------------------------------------------------------------------
BufferInit ==
  /\ memory = [b \in Blocks |-> Unused]
  /\ state = [c \in Calls |-> "absent"]
  /\ encoded = [c \in Calls |-> NoBlock]
  /\ buffer = [c \in Calls |-> NoBlock]
  /\ message = [c \in Calls |-> Unused]

(* CreateOutputBuffer(), which follows the encoder in the same call.       *)
CreateOutputBuffer(c) == copySmall(c) \/ createExternal(c) \/ refuse(c)

BufferNext ==
  \E c \in Calls :
    encode(c) \/ CreateOutputBuffer(c) \/ userWrites(c) \/ drop(c) \/ collect(c)

(* The collector finds what was dropped; nobody is bound to drop anything. *)
BufferFairness == \A c \in Calls : WF_bvars(collect(c))

BufferSpec == BufferInit /\ [][BufferNext]_bvars /\ BufferFairness

-----------------------------------------------------------------------------
(* Properties.                                                             *)

(* Whoever holds a Buffer finds in it what was encoded, or what it wrote   *)
(* itself: nobody frees or reuses the memory below it.                     *)
BuffersKeepMessage ==
  \A c \in Calls :
    state[c] \in {"held", "dropped"} => memory[buffer[c]] = message[c]

(* Memory in use belongs to one vector or one Buffer: the refusal and the  *)
(* copy leak nothing, and nothing is owned (and so freed) twice.           *)
EveryBlockHasOneOwner ==
  \A b \in Blocks :
    Cardinality({c \in Calls : b \in {encoded[c], buffer[c]}}) =
      IF memory[b] = Unused THEN 0 ELSE 1

(* What a call allocated is free again once its Buffer was dropped, or at  *)
(* once if it got none: FinalizeExternalBuffer() deletes what              *)
(* CreateOutputBuffer() moved to the heap.                                 *)
MemoryIsReturned ==
  (\A c \in Calls : state[c] \in {"dropped", "refused", "gone"})
     ~> (\A b \in Blocks : memory[b] = Unused)
=============================================================================
