-------------------------- MODULE ReaderWriterQueue --------------------------
(***************************************************************************)
(* readerwriterqueue/readerwriterqueue.h: the lock-free queue through      *)
(* which the network thread hands the player's callback its marks.  It is  *)
(* a ring of blocks, each a ring buffer with one slot wasted.  front,      *)
(* localTail and frontBlock belong to the consumer; tail, localFront, next *)
(* and tailBlock to the producer.  localFront and localTail are copies of  *)
(* the other thread's index as last seen.                                  *)
(*                                                                         *)
(* A step reads or writes at most one variable of the other thread, as     *)
(* the acquire and release fences order them.  A thread's accesses to its  *)
(* own variables are part of the step they lead to.                        *)
(***************************************************************************)
EXTENDS Integers, Sequences, FiniteSets

CONSTANTS
  MaxEnqueues,     \* bound on the elements; they are numbered as they come
  Constructions,   \* pairs of the constructor's maxSize and the MAX_BLOCK_SIZE
  MaxBlocks        \* bound on the blocks; beyond, allocation always fails

\* The size that is asked for, and the elements of a block: a power of two, the
\* sizes such that ceilToPow2 as it is below has a result.
ASSUME MarksAssumption ==
  /\ MaxEnqueues \in Nat
  /\ Constructions \subseteq Nat \X Nat
  /\ \A built \in Constructions : 0 < built[1] /\ built[1] < 65536 /\ 1 < built[2]

Element == 1..MaxEnqueues

\* A slot whose element was destroyed or never constructed.
Gone == 0

VARIABLES
  maxSize, MAX_BLOCK_SIZE,  \* the arguments of constructor and template
  block,             \* the blocks made so far, each with its slots
  frontBlock, tailBlock, largestBlockSize,
  enqueued,          \* how many elements were offered
  producer,          \* where inner_enqueue is, and its local variables
  consumer,          \* where try_dequeue, peek or pop is, and its local variables
  answer,            \* what the last finished call of the consumer gave
  queue,             \* history: the elements enqueued and not yet dequeued
  lengthAtEnqueue,   \* history: the elements when the running enqueue began
  emptyAtCall        \* history: there were none when the consumer's call began

marksVars ==
  <<maxSize, MAX_BLOCK_SIZE, block, frontBlock, tailBlock, largestBlockSize, enqueued, producer,
    consumer, answer, queue, lengthAtEnqueue, emptyAtCall>>

NewBlock(capacity) ==
  [front |-> 0, localTail |-> 0, tail |-> 0, localFront |-> 0, next |-> 1,
   data |-> [slot \in 0..capacity - 1 |-> Gone]]

Size(b) == Cardinality(DOMAIN block[b].data)
After(b, index) == (index + 1) % Size(b)

CeilToPow2(x) == CHOOSE p \in {2^k : k \in 0..16} : p >= x /\ p < 2 * x

InitialBlockCount(size) ==
  IF CeilToPow2(size + 1) > 2 * MAX_BLOCK_SIZE
  THEN (size + 2 * MAX_BLOCK_SIZE - 3) \div (MAX_BLOCK_SIZE - 1)
  ELSE 1

InitialBlockSize(size) ==
  IF CeilToPow2(size + 1) > 2 * MAX_BLOCK_SIZE
  THEN MAX_BLOCK_SIZE ELSE CeilToPow2(size + 1)

NoEnqueue == [at |-> "idle", element |-> Gone, next |-> 1]
NoCall == [at |-> "idle", call |-> "none", element |-> Gone, next |-> 1]

MarksInit ==
  /\ \E built \in Constructions : maxSize = built[1] /\ MAX_BLOCK_SIZE = built[2]
  /\ LET n == InitialBlockCount(maxSize)
     IN  block = [b \in 1..n |-> [NewBlock(InitialBlockSize(maxSize))
                                    EXCEPT !.next = (b % n) + 1]]
  /\ frontBlock = 1 /\ tailBlock = 1
  /\ largestBlockSize = InitialBlockSize(maxSize)
  /\ enqueued = 0
  /\ producer = NoEnqueue
  /\ consumer = NoCall
  /\ answer = << >>
  /\ queue = << >> /\ lengthAtEnqueue = 0 /\ emptyAtCall = FALSE

-----------------------------------------------------------------------------
(* The producer: enqueue.                                                    *)

Produce(at) == producer' = [producer EXCEPT !.at = at]

\* Whether one more element fits, going by the given front index.
Fits(b, front) == After(b, block[b].tail) # front

OfferBegin ==
  /\ producer.at = "idle" /\ enqueued < MaxEnqueues
  /\ enqueued' = enqueued + 1
  /\ producer' = [producer EXCEPT !.element = enqueued',
                    !.at = IF Fits(tailBlock, block[tailBlock].localFront)
                           THEN "construct" ELSE "front"]
  /\ lengthAtEnqueue' = Len(queue)
  /\ UNCHANGED <<maxSize, MAX_BLOCK_SIZE, block, frontBlock, tailBlock,
                 largestBlockSize, consumer, answer, queue, emptyAtCall>>

ProducerStep ==
  /\ lengthAtEnqueue' = IF producer' = NoEnqueue THEN 0 ELSE lengthAtEnqueue
  /\ UNCHANGED <<maxSize, MAX_BLOCK_SIZE, frontBlock, enqueued, consumer, answer,
                 emptyAtCall>>

LoadFront ==
  /\ producer.at = "front"
  /\ block' = [block EXCEPT ![tailBlock].localFront = block[tailBlock].front]
  /\ Produce(IF Fits(tailBlock, block[tailBlock].front) THEN "construct" ELSE "frontBlock")
  /\ ProducerStep /\ UNCHANGED <<tailBlock, largestBlockSize, queue>>

Construct ==
  /\ producer.at = "construct"
  /\ block' = [block EXCEPT ![tailBlock].data[block[tailBlock].tail] = producer.element]
  /\ Produce("tail")
  /\ ProducerStep /\ UNCHANGED <<tailBlock, largestBlockSize, queue>>

StoreTail ==
  /\ producer.at = "tail"
  /\ block' = [block EXCEPT ![tailBlock].tail = After(tailBlock, @)]
  /\ producer' = NoEnqueue
  /\ queue' = Append(queue, producer.element)
  /\ ProducerStep /\ UNCHANGED <<tailBlock, largestBlockSize>>

LoadFrontBlock ==
  /\ producer.at = "frontBlock"
  /\ producer' = [producer EXCEPT !.next = block[tailBlock].next,
                    !.at = IF block[tailBlock].next # frontBlock THEN "nextFront" ELSE "make"]
  /\ ProducerStep /\ UNCHANGED <<block, tailBlock, largestBlockSize, queue>>

LoadNextFront ==
  /\ producer.at = "nextFront"
  /\ block' = [block EXCEPT ![producer.next].localFront = block[producer.next].front]
  /\ Produce("constructNext")
  /\ ProducerStep /\ UNCHANGED <<tailBlock, largestBlockSize, queue>>

ConstructNext ==
  /\ producer.at = "constructNext"
  /\ LET b == producer.next IN
     block' = [block EXCEPT ![b].data[block[b].tail] = producer.element]
  /\ Produce("nextTail")
  /\ ProducerStep /\ UNCHANGED <<tailBlock, largestBlockSize, queue>>

StoreNextTail ==
  /\ producer.at = "nextTail"
  /\ block' = [block EXCEPT ![producer.next].tail = After(producer.next, @)]
  /\ Produce("tailBlock")
  /\ ProducerStep /\ UNCHANGED <<tailBlock, largestBlockSize, queue>>

\* make_block; no other thread sees the block before it is linked.
MakeBlock ==
  /\ producer.at = "make"
  /\ Len(block) < MaxBlocks
  /\ largestBlockSize' =
       IF largestBlockSize >= MAX_BLOCK_SIZE THEN largestBlockSize ELSE 2 * largestBlockSize
  /\ block' = Append(block, [NewBlock(largestBlockSize') EXCEPT
                               !.data[0] = producer.element, !.tail = 1, !.localTail = 1,
                               !.next = block[tailBlock].next])
  /\ producer' = [producer EXCEPT !.at = "link", !.next = Len(block) + 1]
  /\ ProducerStep /\ UNCHANGED <<tailBlock, queue>>

\* malloc fails: enqueue returns false.
MakeBlockFails ==
  /\ producer.at = "make"
  /\ producer' = NoEnqueue
  /\ ProducerStep /\ UNCHANGED <<block, tailBlock, largestBlockSize, queue>>

LinkBlock ==
  /\ producer.at = "link"
  /\ block' = [block EXCEPT ![tailBlock].next = producer.next]
  /\ Produce("tailBlock")
  /\ ProducerStep /\ UNCHANGED <<tailBlock, largestBlockSize, queue>>

StoreTailBlock ==
  /\ producer.at = "tailBlock"
  /\ tailBlock' = producer.next
  /\ producer' = NoEnqueue
  /\ queue' = Append(queue, producer.element)
  /\ ProducerStep /\ UNCHANGED <<block, largestBlockSize>>

-----------------------------------------------------------------------------
(* The consumer: try_dequeue, peek and pop, which find the front element the *)
(* same way.                                                                 *)

Consume(at) == consumer' = [consumer EXCEPT !.at = at]

CallBegin(operation) ==
  /\ consumer.at = "idle"
  /\ consumer' = [consumer EXCEPT !.call = operation,
                    !.at = IF block[frontBlock].front # block[frontBlock].localTail
                           THEN "take" ELSE "tail"]
  /\ answer' = << >>
  /\ emptyAtCall' = (queue = << >>)
  /\ UNCHANGED <<maxSize, MAX_BLOCK_SIZE, block, frontBlock, tailBlock,
                 largestBlockSize, enqueued, producer, queue, lengthAtEnqueue>>

ConsumerStep ==
  UNCHANGED <<maxSize, MAX_BLOCK_SIZE, tailBlock, largestBlockSize, enqueued, producer,
              lengthAtEnqueue>>

Return ==
  /\ consumer' = NoCall
  /\ emptyAtCall' = FALSE

\* The tail of the front block is loaded, once before tailBlock and once after.
LoadTailThen(at, otherwise) ==
  /\ consumer.at = at
  /\ block' = [block EXCEPT ![frontBlock].localTail = block[frontBlock].tail]
  /\ Consume(IF block[frontBlock].front # block[frontBlock].tail THEN "take" ELSE otherwise)
  /\ ConsumerStep /\ UNCHANGED <<frontBlock, answer, emptyAtCall, queue>>

LoadTail == LoadTailThen("tail", "tailBlock")

\* Mutated form: the tail is not loaded again after tailBlock, so a block that the
\* producer filled in between is skipped.
ReloadTailNever ==
  /\ consumer.at = "tailAgain"
  /\ Consume("next")
  /\ ConsumerStep /\ UNCHANGED <<block, frontBlock, answer, emptyAtCall, queue>>

ReloadTail == LoadTailThen("tailAgain", "next")

LoadTailBlock ==
  /\ consumer.at = "tailBlock"
  /\ IF frontBlock # tailBlock
     THEN Consume("tailAgain") /\ UNCHANGED emptyAtCall
     ELSE Return
  /\ ConsumerStep /\ UNCHANGED <<block, frontBlock, answer, queue>>

LoadNext ==
  /\ consumer.at = "next"
  /\ consumer' = [consumer EXCEPT !.next = block[frontBlock].next, !.at = "tailOfNext"]
  /\ ConsumerStep /\ UNCHANGED <<block, frontBlock, answer, emptyAtCall, queue>>

\* peek looks at the next block without advancing to it.
LoadTailOfNext ==
  /\ consumer.at = "tailOfNext"
  /\ IF consumer.call = "peek"
     THEN Consume("peekNext") /\ UNCHANGED block
     ELSE /\ block' = [block EXCEPT ![consumer.next].localTail = block[consumer.next].tail]
          /\ Consume("advance")
  /\ ConsumerStep /\ UNCHANGED <<frontBlock, answer, emptyAtCall, queue>>

StoreFrontBlock ==
  /\ consumer.at = "advance"
  /\ frontBlock' = consumer.next
  /\ Consume("take")
  /\ ConsumerStep /\ UNCHANGED <<block, answer, emptyAtCall, queue>>

\* The caller of peek reads the element through the pointer.
PeekAt(at, b) ==
  /\ consumer.at = at /\ consumer.call = "peek"
  /\ answer' = <<block[b].data[block[b].front]>>
  /\ Return
  /\ ConsumerStep /\ UNCHANGED <<block, frontBlock, queue>>

Peek == PeekAt("take", frontBlock) \/ PeekAt("peekNext", consumer.next)

\* try_dequeue moves the element out; pop destroys it and is otherwise the same.
Take ==
  /\ consumer.at = "take" /\ consumer.call # "peek"
  /\ LET slot == block[frontBlock].front IN
     /\ consumer' = [consumer EXCEPT !.element = block[frontBlock].data[slot],
                                     !.at = "front"]
     /\ block' = [block EXCEPT ![frontBlock].data[slot] = Gone]
  /\ ConsumerStep /\ UNCHANGED <<frontBlock, answer, emptyAtCall, queue>>

StoreFront ==
  /\ consumer.at = "front"
  /\ block' = [block EXCEPT ![frontBlock].front = After(frontBlock, @)]
  /\ answer' = <<consumer.element>>
  /\ Return
  /\ queue' = Tail(queue)
  /\ ConsumerStep /\ UNCHANGED frontBlock

MarksNext ==
  \/ OfferBegin
  \/ LoadFront \/ Construct \/ StoreTail
  \/ LoadFrontBlock \/ LoadNextFront \/ ConstructNext \/ StoreNextTail
  \/ MakeBlock \/ MakeBlockFails \/ LinkBlock \/ StoreTailBlock
  \/ \E operation \in {"peek", "try_dequeue"} : CallBegin(operation)
  \/ LoadTail \/ LoadTailBlock \/ ReloadTail \/ LoadNext \/ LoadTailOfNext
  \/ StoreFrontBlock \/ Peek \/ Take \/ StoreFront

MarksSpec == MarksInit /\ [][MarksNext]_marksVars

-----------------------------------------------------------------------------
(* Properties                                                                *)

\* The asserts of inner_enqueue, try_dequeue and pop: a block the producer
\* moves on to is empty and is not the one the consumer reads, and a block the
\* consumer moves on to is not empty.
AssertsHold ==
  /\ producer.at = "constructNext" =>
       /\ block[producer.next].front = block[producer.next].tail
       /\ producer.next # frontBlock
  /\ consumer.at \in {"advance", "peekNext"} =>
       block[consumer.next].front # block[consumer.next].tail

\* "Constructs a queue that can hold maxSize elements without further
\* allocations": an enqueue allocates only if that many were in the queue when it
\* began.
AllocatesOnlyBeyondMaxSize ==
  producer.at = "make" => lengthAtEnqueue >= maxSize

\* The ring of blocks is a queue: nothing is lost, repeated or reordered, also when
\* the consumer looks for a block while the producer fills this one and moves on.
\* It keeps its own assertions, and allocates only beyond the size it was made for.
Unbounded == INSTANCE MarkQueue WITH
  call <- consumer.call, mayFail <- emptyAtCall

ImplementsMarkQueue == Unbounded!Spec /\ [](AssertsHold /\ AllocatesOnlyBeyondMaxSize)
=============================================================================
