--------------------------- MODULE TensorBuffers ---------------------------
(***************************************************************************)
(* tensor_buffers.sv: the memories of the accelerator.  A read gives its     *)
(* word in the cycle after the address; the output memory is written by      *)
(* words or by bytes through one port.  The byte reads of weights, biases    *)
(* and inputs are in ConvEngine and GapEngine.                               *)
(***************************************************************************)
EXTENDS AccelPkg

CONSTANT MAX_WORDS        \* words of each memory, instances take powers of two

Memories == Packets \cup {"OUTPUT"}

ASSUME MemoriesAssumption == MAX_WORDS \in [Memories -> Nat \ {0}]

VARIABLES mem, main_word_rd_data, skip_rd_data, output_rd_data

bufferVars == << mem, main_word_rd_data, skip_rd_data, output_rd_data >>

ZeroWord == [i \in 0..3 |-> 0]

(* No reset reaches the memories: an FPGA configuration leaves zeros.        *)
BuffersInit ==
  /\ mem = [m \in Memories |-> [a \in 0..MAX_WORDS[m] - 1 |-> ZeroWord]]
  /\ main_word_rd_data = ZeroWord /\ skip_rd_data = ZeroWord /\ output_rd_data = ZeroWord

(* An address is as wide as its memory is large.                             *)
Address(m, n) == n % MAX_WORDS[m]

(* What a clock edge writes: records of the memory, the address, the lanes   *)
(* that are enabled and the data.                                            *)
WriteOf(m, n, lanes, data) == [mem |-> m, addr |-> Address(m, n), lanes |-> lanes, data |-> data]

ByteWrite(element, byte) ==
  WriteOf("OUTPUT", element \div 4, {element % 4}, [i \in 0..3 |-> byte])

WordWrite(m, n, data) == WriteOf(m, n, 0..3, data)

(* One clock edge; a read sees the memory as it was before the write.        *)
BuffersClock(writes, main, skip, output) ==
  /\ mem' = [m \in Memories |-> [a \in DOMAIN mem[m] |-> [i \in 0..3 |->
       IF \E w \in writes : w.mem = m /\ w.addr = a /\ i \in w.lanes
       THEN (CHOOSE w \in writes : w.mem = m /\ w.addr = a /\ i \in w.lanes).data[i]
       ELSE mem[m][a][i]]]]
  /\ main_word_rd_data' = IF main = {} THEN main_word_rd_data
                          ELSE mem["INPUT"][Address("INPUT", CHOOSE n \in main : TRUE)]
  /\ skip_rd_data' = IF skip = {} THEN skip_rd_data
                     ELSE mem["SKIP"][Address("SKIP", CHOOSE n \in skip : TRUE)]
  /\ output_rd_data' = IF output = {} THEN output_rd_data
                       ELSE mem["OUTPUT"][Address("OUTPUT", CHOOSE n \in output : TRUE)]
=============================================================================
