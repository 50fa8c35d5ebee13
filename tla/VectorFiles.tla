----------------------------- MODULE VectorFiles -----------------------------
(***************************************************************************)
(* The vector directories on disk: a generator writes one file after the     *)
(* other over those of earlier runs (python/export/exporter.py) and may end  *)
(* anywhere, with an exception or killed; the header generators and the      *)
(* manifest generator read what they find.  The content of a file is the     *)
(* seed of the run that wrote it.                                            *)
(***************************************************************************)
EXTENDS VectorGenerators

CONSTANTS
  Generated,       \* the scripts of this instance
  Seeds,
  MaxRuns, MaxBackboneRuns   \* bounds: how often a script is run, of which one makes 32 calls

NoSeed == 0
Torn == -1      \* a file that was being written when its writer ended

ASSUME GeneratedAssumption == Generated \subseteq Scripts /\ NoSeed \notin Seeds /\ Torn \notin Seeds

VARIABLES
  run,             \* the generator that runs: script, seed, call, and what is left of it to write
  tensors,         \* what it has computed
  disk,            \* path -> seed
  manifest,        \* the approved manifest
  header,          \* the C header written last
  runs,            \* how many generators were run
  whole            \* history: the seed all files are of, if the last run finished

pipelineVars == << run, tensors, disk, manifest, header, runs, whole >>

NotRunning == [script |-> "none", seed |-> NoSeed, next |-> 1, files |-> << >>]
NoFiles == << >>
NoManifest == [seed |-> NoSeed, sha256 |-> NoFiles]
NoHeader == [outcome |-> "none", files |-> NoFiles, manifest |-> NoManifest]

PipelineInit ==
  /\ run \in {[NotRunning EXCEPT !.script = s] : s \in Generated}
  /\ tensors = << >> /\ disk = NoFiles
  /\ manifest = NoManifest /\ header = NoHeader /\ runs = 0 /\ whole = NoSeed

Script == run.script
Running == run.seed # NoSeed
AllCalls == Calls(Script)

-----------------------------------------------------------------------------
(* What each call writes, in order.                                          *)

Paths(node, names) == [k \in DOMAIN names |-> << node, names[k] >>]

export_conv_test_vector == << "input", "weight", "bias", "expected_output", "config" >>
export_gap_test_vector == << "input", "expected_output", "config" >>
ResidualFiles ==
  IF Script = "identity" THEN << "final_expected_output", "shortcut_rescaled", "residual_config" >>
  ELSE << "final_expected_output", "residual_config" >>

ExportFiles(call) ==
  CASE call.op = "conv"    -> export_conv_test_vector
    [] call.op = "gap"     -> export_gap_test_vector
    [] call.op = "add"     -> ResidualFiles
    [] call.op = "rescale" -> << >>

Chain == << << NumBlocks + 1, "chain" >>, "config" >>
ChainFiles == IF Script \in {"stage3_backbone", "stage3_gap_fc"} THEN << Chain >> ELSE << >>

(* What the last export wrote reads back.                                    *)
RoundTrip(at, names) == \A p \in ToSet(Paths(at, names)) : p \in DOMAIN disk /\ disk[p] = run.seed

_self_check(call) == call.op = "conv" => RoundTrip(call.at, export_conv_test_vector)
_gap_self_check(call) == call.op = "gap" => RoundTrip(call.at, export_gap_test_vector)

RoundTrips ==
  run.next > 1 => _self_check(AllCalls[run.next - 1]) /\ _gap_self_check(AllCalls[run.next - 1])

-----------------------------------------------------------------------------
(* A generator.                                                              *)

Generate(seed) ==
  /\ ~Running /\ runs < IF Script = "stage3_backbone" THEN MaxBackboneRuns ELSE MaxRuns
  /\ run' = [run EXCEPT !.seed = seed, !.next = 1, !.files = << >>]
  /\ runs' = runs + 1 /\ whole' = NoSeed
  /\ tensors' = [n \in {Input, << 0, "pixel" >>} |->
                   [scale |-> Input, shape |-> IF n = Input THEN InputShape(Script) ELSE << 1, 1, 4 >>]]
  /\ UNCHANGED << disk, manifest, header >>

NextCall ==
  /\ Running /\ run.files = << >> /\ run.next <= Len(AllCalls) /\ RoundTrips
  /\ LET call == AllCalls[run.next]
     IN  /\ tensors' = [n \in {call.at} \cup DOMAIN tensors |->
                          IF n = call.at THEN Output(call, tensors) ELSE tensors[n]]
         /\ run' = [run EXCEPT !.next = @ + 1, !.files = Paths(call.at, ExportFiles(call))]
  /\ UNCHANGED << disk, manifest, header, runs, whole >>

Written(paths, seed) ==
  [p \in paths \cup DOMAIN disk |-> IF p \in paths THEN seed ELSE disk[p]]

(* Mutant: the output of a block is not written again.                       *)
WriteFile_KeepResidual ==
  /\ Running /\ run.files # << >>
  /\ LET p == Head(run.files)
     IN  disk' = Written({p}, IF p[2] = "final_expected_output" /\ p \in DOMAIN disk THEN disk[p] ELSE run.seed)
  /\ run' = [run EXCEPT !.files = Tail(@)]
  /\ UNCHANGED << tensors, manifest, header, runs, whole >>

WriteFile ==
  /\ Running /\ run.files # << >>
  /\ disk' = Written({Head(run.files)}, run.seed)
  /\ run' = [run EXCEPT !.files = Tail(@)]
  /\ UNCHANGED << tensors, manifest, header, runs, whole >>

(* The chain's own file, and the end.                                        *)
Finish ==
  /\ Running /\ run.files = << >> /\ run.next = Len(AllCalls) + 1 /\ RoundTrips
  /\ disk' = Written(ToSet(ChainFiles), run.seed)
  /\ whole' = run.seed /\ run' = [run EXCEPT !.seed = NoSeed]
  /\ UNCHANGED << tensors, manifest, header, runs >>

Writing ==
  IF run.files = << >> /\ run.next > Len(AllCalls) THEN ChainFiles ELSE run.files

(* compute_output_scale finds no multiplier, an assertion fails, the run is  *)
(* killed, perhaps while it writes: what was written stays.                  *)
Raise ==
  /\ Running
  /\ run' = [run EXCEPT !.seed = NoSeed]
  /\ \/ UNCHANGED disk
     \/ Writing # << >> /\ disk' = Written({Head(Writing)}, Torn)
  /\ UNCHANGED << tensors, manifest, header, runs, whole >>

-----------------------------------------------------------------------------
(* What each header generator reads and embeds.                              *)

Files(node, names) == {node} \X names
ConvData == {"weight", "bias", "expected_output", "config"}
ResidualData == {"final_expected_output", "residual_config"}

Stage1Header == Files(<< 0, "conv" >>, ConvData \cup {"input"})

Stage2Header ==
  Files(Part(1, "conv1"), ConvData \cup {"input"}) \cup Files(Part(1, "conv2"), ConvData)
    \cup Files(Part(1, "add"), ResidualData)
    \cup IF Script = "projection" THEN Files(Part(1, "shortcut"), ConvData)
          ELSE Files(Part(1, "add"), {"shortcut_rescaled"})

(* A block has a projection if there is a directory for one.                 *)
BackboneHeader ==
  Files(Stem, ConvData \cup {"input"})
    \cup (UNION {Files(Part(b, part), ConvData) : b \in 1 .. NumBlocks, part \in {"conv1", "conv2"}})
    \cup (UNION {Files(p[1], ConvData) : p \in {q \in DOMAIN disk : q[1][2] = "shortcut"}})
    \cup (UNION {Files(Part(b, "add"), ResidualData) : b \in 1 .. NumBlocks})
    \cup Files(Gap, {"expected_output", "config"}) \cup Files(Fc, ConvData) \cup {Chain}

GapFcHeader ==
  Files(Gap, {"input", "expected_output", "config"}) \cup Files(Fc, ConvData) \cup {Chain}

HeaderReads ==
  CASE Script = "stage1_conv" -> Stage1Header
    [] Script \in DOMAIN BLOCK_CONFIGS -> Stage2Header
    [] Script = "stage3_backbone" -> BackboneHeader
    [] Script = "stage3_gap_fc" -> GapFcHeader

(* The producer whose recorded output must be a consumer's recorded input.   *)
Checked ==
  CASE Script = "stage1_conv" -> {}
    [] Script \in DOMAIN BLOCK_CONFIGS -> {<< Part(1, "conv1"), Part(1, "conv2") >>}
    [] OTHER -> {<< Gap, Fc >>}

(* _load_conv: lengths are compared with the configuration's, which is       *)
(* parsed; those of the residual files are not.                              *)
Unmeasured == {"final_expected_output", "shortcut_rescaled"}
_load_conv == \A p \in HeaderReads : p \in DOMAIN disk /\ (disk[p] = Torn => p[2] \in Unmeasured)

NotStale(producer, consumer) ==
  /\ << consumer, "input" >> \in DOMAIN disk
  /\ disk[<< consumer, "input" >>] = disk[<< producer, "expected_output" >>]

Readable == _load_conv /\ \A pair \in Checked : NotStale(pair[1], pair[2])

-----------------------------------------------------------------------------
(* Three lists of the files of a vector, each written down by itself: what a *)
(* manifest has the hashes of, what a header generator compares with them,   *)
(* and what it writes into the header byte for byte.                         *)

Convolved == {"weight", "bias", "expected_output"}

(* generate_stage2_vector_manifest.py; of stage 1 there is one manifest.     *)
COMMON_FILES ==
  Files(Part(1, "conv1"), Convolved \cup {"config", "input"}) \cup Files(Part(1, "conv2"), Convolved \cup {"config"})
    \cup Files(Part(1, "add"), {"residual_config", "final_expected_output"})
PROJECTION_ONLY_FILES == Files(Part(1, "shortcut"), Convolved \cup {"config"})
IDENTITY_ONLY_FILES == Files(Part(1, "add"), {"shortcut_rescaled"})

ManifestFiles ==
  CASE Script = "stage1_conv" -> Files(<< 0, "conv" >>, Convolved \cup {"input", "config"})
    [] Script = "identity"    -> COMMON_FILES \cup IDENTITY_ONLY_FILES
    [] Script = "projection"  -> COMMON_FILES \cup PROJECTION_ONLY_FILES

Stage1Payloads == Files(<< 0, "conv" >>, Convolved \cup {"input"})

(* Mutant: the block's own output is forgotten.                              *)
Stage2Payloads_NoResidual ==
  Files(Part(1, "conv1"), Convolved \cup {"input"}) \cup Files(Part(1, "conv2"), Convolved)
    \cup IF Script = "projection" THEN Files(Part(1, "shortcut"), Convolved)
          ELSE Files(Part(1, "add"), {"shortcut_rescaled"})

Stage2Payloads ==
  Files(Part(1, "conv1"), Convolved \cup {"input"}) \cup Files(Part(1, "conv2"), Convolved)
    \cup Files(Part(1, "add"), {"final_expected_output"})
    \cup IF Script = "projection" THEN Files(Part(1, "shortcut"), Convolved)
          ELSE Files(Part(1, "add"), {"shortcut_rescaled"})

Payloads == IF Script = "stage1_conv" THEN Stage1Payloads ELSE Stage2Payloads

(* Stage 1 checks the configuration as well.                                 *)
Verified == Payloads \cup IF Script = "stage1_conv" THEN Files(<< 0, "conv" >>, {"config"}) ELSE {}

verify_manifest ==
  Verified \subseteq DOMAIN manifest.sha256 /\ \A p \in Verified : disk[p] = manifest.sha256[p]

Stage1Arrays == Files(<< 0, "conv" >>, {"weight", "bias", "input", "expected_output"})

Stage2Arrays ==
  Files(Part(1, "conv1"), {"input", "weight", "bias", "expected_output"})
    \cup Files(Part(1, "conv2"), {"weight", "bias", "expected_output"})
    \cup (IF Script = "projection" THEN Files(Part(1, "shortcut"), {"weight", "bias", "expected_output"})
           ELSE Files(Part(1, "add"), {"shortcut_rescaled"}))
    \cup Files(Part(1, "add"), {"final_expected_output"})

ByteArrays == IF Script = "stage1_conv" THEN Stage1Arrays ELSE Stage2Arrays

(* generate_stage*_c_header.py, without and with --approved-manifest.        *)
GenerateHeader(withManifest) ==
  /\ ~Running
  /\ withManifest => Script \in {"stage1_conv"} \cup DOMAIN BLOCK_CONFIGS /\ manifest # NoManifest
  /\ LET written == Readable /\ (withManifest => verify_manifest)
     IN  header' = [outcome  |-> IF written THEN "written" ELSE "refused",
                    files    |-> IF written THEN [p \in HeaderReads |-> disk[p]] ELSE NoFiles,
                    manifest |-> IF withManifest THEN manifest ELSE NoManifest]
  /\ UNCHANGED << run, tensors, disk, manifest, runs, whole >>

(* generate_stage2_vector_manifest.py hashes what is on the disk and records *)
(* the seed it is told; what it wrote is approved when it was made after a   *)
(* run that finished, with the seed of that run.                             *)
ApproveManifest ==
  /\ ~Running /\ whole # NoSeed /\ Script \in {"stage1_conv"} \cup DOMAIN BLOCK_CONFIGS
  /\ manifest' = [seed |-> whole, sha256 |-> [p \in ManifestFiles |-> disk[p]]]
  /\ UNCHANGED << run, tensors, disk, header, runs, whole >>

PipelineNext ==
  \/ \E seed \in Seeds : Generate(seed)
  \/ NextCall \/ WriteFile \/ Finish \/ Raise
  \/ \E withManifest \in BOOLEAN : GenerateHeader(withManifest)
  \/ ApproveManifest

PipelineSpec == PipelineInit /\ [][PipelineNext]_pipelineVars

-----------------------------------------------------------------------------
(* What the vectors, and the headers made of them, must be.                  *)

(* The validator of the accelerator with the buffers it is built with        *)
(* (resnet_accel_top.sv:5); only its reference definition of a legal         *)
(* configuration is used, which depends on no variable.                      *)
Rtl == INSTANCE ConfigValidatorProps WITH
  MAX_WEIGHT_WORDS <- 9216, MAX_BIAS_WORDS <- 64, MAX_INPUT_WORDS <- 4096, MAX_OUTPUT_WORDS <- 4096,
  Configs <- {}, Registers <- {}, MaxStarts <- 0, starts <- 0, pending <- 0, validator <- 0, reject_operation <- 0,
  validated <- 0, calculated <- 0, mul_running <- 0, mul_over_limit <- 0,
  mul_accumulator <- 0, mul_multiplicand <- 0, mul_multiplier <- 0, mul_limit <- 0

Volume(shape) == shape[1] * shape[2] * shape[3]

(* The registers for a call, as config.json and the firmware give them from  *)
(* the tensors computed so far.                                              *)
RegistersOf(call, computed) ==
  LET x == computed[call.from].shape
      conv == call.op = "conv"
      weight == IF conv THEN call.layer.kernel * call.layer.kernel * (x[3] * call.layer.oc) ELSE 0
      bytes == [p \in Rtl!Packets |->
                  CASE p = "INPUT" -> Volume(x)
                    [] p = "SKIP" /\ call.op = "add" -> Volume(computed[call.target].shape)
                    [] p = "WEIGHT" -> weight
                    [] p = "BIAS" /\ conv -> 4 * call.layer.oc
                    [] OTHER -> 0]
      plain == [op |-> CASE conv -> Rtl!OP_CONV
                         [] call.op = "add" -> Rtl!OP_RESIDUAL_ADD
                         [] call.op = "gap" -> Rtl!OP_GLOBAL_AVG_POOL,
                h |-> x[1], w |-> x[2], ic |-> x[3], oc |-> computed[call.at].shape[3],
                kernel |-> 0, stride |-> 0, padding |-> 0, relu |-> 0, reserved |-> 0,
                multiplier |-> 0, shift |-> 0, bytes |-> bytes, output |-> Volume(computed[call.at].shape)]
  IN  IF conv THEN [plain EXCEPT !.kernel = call.layer.kernel, !.stride = call.layer.stride,
                                 !.padding = call.layer.padding]
      ELSE plain

Called(call) == Running /\ run.next > 1 /\ call = AllCalls[run.next - 1]

(* Every operation of every script is one the accelerator admits with the    *)
(* buffers it has: the largest weights fill theirs, and the ten classes are  *)
(* padded to whole words.                                                    *)
EveryOperationIsLegal ==
  \A k \in DOMAIN AllCalls :
    Called(AllCalls[k]) /\ AllCalls[k].op # "rescale" => Rtl!Legal(RegistersOf(AllCalls[k], tensors))

(* OP_RESIDUAL_ADD adds the bytes: its two operands have one shape and one   *)
(* scale, through nine blocks that pass the scale on in both directions      *)
(* (generate_stage3_backbone_vectors.py:10).                                 *)
OperandsShareScale ==
  \A k \in DOMAIN AllCalls :
    LET call == AllCalls[k]
    IN  Called(call) /\ call.op = "add" => tensors[call.from] = tensors[call.target]

(* After a run that finished, the header generator accepts, with no manifest *)
(* or with the one made of that run, and what it embeds is of that run,      *)
(* whatever earlier runs left behind.                                        *)
FinishedRunGivesHeader ==
  [][header' # header /\ whole # NoSeed /\ header'.manifest.seed \in {NoSeed, whole} =>
       header'.outcome = "written" /\ \A p \in DOMAIN header'.files : header'.files[p] = whole]_pipelineVars

(* The byte arrays of a header written under an approved manifest are all of *)
(* one run, the one that finished before the manifest was made, after runs   *)
(* with other seeds and runs that ended in the middle: the three lists above *)
(* agree.                                                                    *)
ApprovedBinaries ==
  header.outcome = "written" /\ header.manifest # NoManifest =>
    \A p \in ByteArrays : header.files[p] = header.manifest.seed

(* generate_stage2_c_header.py:33: as in stage 1, where the configuration    *)
(* belongs to it, nothing that differs from the approved hashes is embedded. *)
ApprovedHeaderIsApproved ==
  header.manifest # NoManifest =>
    \A p \in DOMAIN header.files \cap DOMAIN header.manifest.sha256 :
      header.files[p] = header.manifest.sha256[p]
=============================================================================
