# A TLA+ verification of flv2ts

flv2ts cuts FLV files (AAC audio, AVC video) into MPEG transport streams for
HTTP live streaming. This directory holds TLA+ models of its programs,
TLC configurations that check them on small instances, and proofs, checked by
TLAPS, about the packet writers that all the programs share, the main loop of
flv2ts, the parser of transport streams, the clocks in the headers and the
mappings of the library.

Paths below are relative to the repository.

## 1. The system

### Components

| Component | State | Operations | Correct when |
|---|---|---|---|
| `src/bin/ts_write.hh`: the packet writers, with `include/ts/{packet,header,adaptation_field,pes}.hh` | `tw_state` (a continuity counter per stream), `g_output_ts_count` | `write_ts_start`, `write_video`, `write_audio` | packets are 188 bytes; counters have no gap; the payload is there once, in order; calls return |
| `src/bin/flv2ts.cc`: FLV to files `PREFIX0.ts`, `PREFIX1.ts`, ... | position in the FLV, `switched`, `next_timestamp`, `conf`, `sps_pps_write`, `next_prev_pat_pmt_output`, the writers' state | one turn of the loop per tag | every payload is in one file, files can be played alone and in a row, tables come often enough, files are as long as asked for |
| `src/bin/build-hls-index.cc`: the same loop into `/dev/null`, leaving `.ts_idx`, `.m3u8`, `.avc_conf` | as flv2ts, and three files with different buffering | one turn per tag, last entry, end of list | the index lets getts make the segments flv2ts would make |
| `src/bin/getts.cc`, `src/lib/getts.cc`: one segment on demand | the two index entries, the writers' state | read configuration, read index, open slice, one turn per tag | the segment equals the file of flv2ts; what is not there is refused |
| `include/flv/*`: FLV parser | cursor | `parseHeader`, `parseTag`, `position`, `eos` | tags in order; errors at what is cut off |
| `include/h264/*`: AVC configuration record, samples | lists of parameter sets | `parse` | the sets are those of the header parsed |
| `include/ts/parser.hh`, `ts-extract`, `parse-ts` | cursor, the PIDs learnt from PAT and PMT | `parse`, payload type | takes the packets the tables announce; reads back what the writers write |
| `include/ts/{pat,pmt}.hh`, `include/adts/header.hh`, `include/aux/crc32.hh`: field codecs | none | `dump` | a decoder finds the values that were meant |
| `include/aux/{file_mapped_memory,byte_stream}.hh` | mapping, cursor | map, unmap, read, seek | no access outside the file or to what another call has unmapped |
| `parse-flv`, `flv-extract` | the parser's cursor | print, copy | every tag once, an end at the right place |

The default target of `src/Makefile` builds `flv2ts`, `build-hls-index`,
`getts` and `libgetts`; the other programs have targets of their own. No
target defines `NDEBUG`, so assertions are checked.

### How they interact

* Inside a program everything is a call; there are no threads and no
  callbacks. `libgetts` is a shared library; nothing in the repository says
  that it may or may not be called from several threads.
* `build-hls-index` and `getts` share files without any lock. `.m3u8` is
  flushed line by line (`std::endl`), `.ts_idx` stays in a stream buffer until
  that is full or closed, `.avc_conf` is truncated and rewritten at every AVC
  sequence header. A player learns of a segment from `.m3u8` and then has getts
  look for it in `.ts_idx`.
* `build-hls-index` and `getts` agree only because both run the same writers:
  the indexer throws packets away and keeps the counters, getts takes the
  counters from the index and makes the packets. flv2ts does the same in one
  go, so its files say what the segments should be.

### What is hard

* the retry in `write_*_first`, which gives its counter back and recurses, and
  the two comparisons of `write_*_rest` that must agree at 183 and 184 bytes;
* state that is reset per file (parameter sets, tables) next to state that runs
  on (continuity counters, packet count);
* timestamps that are negative, wrap, or go back; a 32-bit sum kept in a
  64-bit variable;
* a last tag without a trailer, which both programs must drop, and a file cut
  after any other byte;
* tags shorter than their own header, where two unsigned numbers wrap;
* requests while the index is half written, after a kill, while the indexer is
  run a second time on what it left, or with numbers that no segment has;
* a second sequence header; NAL units cut by the width of another one;
* tables that change within a transport stream, headers that do not fit in
  their packet;
* clocks of 33 bits made from doubles, and numbers spread over bytes;
* one mapping that is unmapped twice.

The full list, line by line, is in `PROJECT.json` under `hazards`.

## 2. The modules

```
TsPacket   layout arithmetic (188 bytes: header, adaptation field, PES header)
  |- TsStream              what a caller of the writers relies on
  |- TsWrite               the writers, one packet per step      (MCTsWrite)
  |    `- TsWriteProofs
  |- TsParser              ts::Parser, ts-extract, parse-ts      (MCTsExtract)
  |    `- TsRoundTrip      with TsWrite: readers of its output   (MCTsRoundTrip)
  |         `- TsRoundTripProofs, of TsParser too, EXTENDS TsWriteProofs
  `- FlvTags               tags, cuts, configuration, units
       |- Flv2ts           the main loop of flv2ts               (MCFlv2ts)
       |    `- FlvTagsProofs <- Flv2tsProofs
       |- BuildHlsIndex    the indexer and its three files
       |- GetTs            getts and libgetts
       |- HlsPipeline      INSTANCEs of the last three           (MCHlsPipeline)
       |    `- FlvTagsProofs <- HlsPipelineProofs
       `- FlvExtract       what a reader of FLV files promises
FlvParser      flv::Parser and three programs on bytes,
               refines FlvExtract                                (MCFlvParser)
    `- FlvParserProofs
TsFields       clocks and lengths in the headers                 (MCTsFields)
    `- TsFieldsProofs
MappedMemory   mappings of libgetts in several threads           (MCMappedMemory)
    `- MappedMemoryProofs
```

**TsPacket** computes what `Header::dump`, `AdaptationField::dump` and
`PES::dump` leave of a packet: `FirstRoom`, `RestRoom`, `RestAf`, and
`NumPackets(size)`, the number of packets of a whole call. The widths matter
and are kept: `FirstAfLength` is a `uint8_t`, `PesPacketLength` a `uint16_t`.

**TsWrite** is `ts_write.hh` with one action per step of the code: `Enter` (the
call), `Retry` (the payload does not fill the packet: counter given back,
recursion), `WriteFirst`, `WriteRest` (a turn of the loop), `Return`,
`WriteTsStart`. The payload's bytes are abstracted to offsets: a packet carries
`from..to-1` of call `unit`. `RestAfExist` and `RestAf` keep the two different
comparisons apart. `CounterMod` is the modulus of an `unsigned`.

**TsStream** says the same from outside: calls one after the other, each
appended whole, in order, in 188-byte packets of its PID with the next counter.
It does not know how a payload is cut.

**FlvTags** has the input: a file is its tags and how it goes on behind the
last one (`trailer`, `none`, `cut`). A tag is what the programs tell apart:
its kind (`nalu`, `aac`, `avc_config`, skipped ones, ones they give up on),
timestamp, payload size, sequence header. A NALU has no size of its own: by the
width (1 to 4 bytes) of the lengths in it it is cut into NAL units, and
`storage[w]` is how many bytes the units of width `w` make with their start codes,
or that `w` does not cut it (`Fits`). The configuration (`ParseConf`) keeps the
lists of SPS and of PPS, the count of each that the last header announced, and the
last width. `Due` is the condition that cuts, `Wide` and `NextTimestamp` have its
integer widths. A call of the writers is
one *unit* with `NumPackets` packets, which TsWrite justifies (`PacketCount`).

**Flv2ts**: one action per branch of the loop; lines 73-106, which every tag
goes through, are `Prologue` and `Opened` in each of them.

**BuildHlsIndex** has two steps per turn (`Cut`/`NoCut`, then the tag), and a
third between truncating and rewriting `.avc_conf`, because getts may read in
between. `flushed` is how much of `.ts_idx` is on disk: it may grow at any
write, and does on return. `Kill` loses the rest. `Restart` is a second run of
the program on what the first one left, whether that ended, failed or was
killed: `OpenPlaylist` and then `OpenIndex` truncate their files, `.avc_conf`
keeps its old contents until the first sequence header.

**GetTs**: `MapConf`, `ReadConf`, `MapIndex`, `ReadStart`, `ReadEnd`, `Open`
(or `OpenError`: the FLV file cannot be mapped), then one action per kind of tag.
`Video` cuts a NALU by the width in `.avc_conf`, the last header's, whatever the
width was in force for flv2ts and the indexer at that tag; `GiveUp` is the NALU that
this width does not cut, and any other tag that the loop refuses. Each file is mapped in one step and read in
another, and each index entry in a step of its own, for `build-hls-index` may
truncate and fill the file in between: a configuration that has changed under
the mapping is `undefined`, and the two entries may come from two runs. The
range check is the one of the code. Entries behind the end of the file are zero
up to the end of the page (`PageEntries`); behind that, or in a page the file no
longer reaches, the state is `undefined`. A slice that begins at byte 0 meets
the header of the file where a tag should be, and `ParseError`.

**HlsPipeline** runs flv2ts first (it shares nothing with the others), then
the indexer interleaved with requests.

**TsParser** has one action per way a packet goes through `ts::Parser` and the
loop of `ts-extract` or `parse-ts`: `ReadPat`, `ReadPmt`, `Extract`, `Skip`,
`BadPacket`, `BadPayload`, `Undefined`, and `Eos`/`Short` at the end. A packet
is what the parser looks at (PID, flags, lengths, what its payload begins with);
`AfEnd` and `DataStart` are where the cursor comes to. `Opened` is the check of the
tools on the mapping: an empty file cannot be mapped, and they return 1 (a file that
is missing is not modelled). `undefined` is a null payload that is used, a PES header
that goes on in the next packet or begins behind its own, time stamps that fail the
assertion of `readPtsDts`, what a table that leads behind its packet makes the parser
read there, and the uninitialised header that `parse-ts` prints before it looks at
the result of `parse` (`parse-ts.cc:33`).

A PMT with program descriptors is read wrongly: `program_info_length / 8` bytes are
skipped (`parser.hh:301`), the rest is read as streams. What that yields depends on
the descriptors' bytes, so a section says whether it `passes` and what streams it is
`misread` as, any at all; without descriptors it is read as it is meant
(`StreamsRead`). `NoneMisread` says that no PMT of a file passes that way.

**TsRoundTrip** composes TsWrite and TsParser: at any moment a reader is opened
on a prefix of what the writers have made, which may end within a packet. `View`
is a packet of the writers as the parser meets it.

**FlvParser** is `flv::Parser` on bytes, with `flv-extract`, `parse-flv` and the
reading half of flv2ts around it (`Copy`, `Cut`, `Skip`, `Refuse`, ...). A size
that wrapped below zero is kept as a negative number, for adding either to the
cursor gives the same address. The configuration record and the cutting into
NAL units are there byte by byte (`ConfParses`, `Units`). Bytes behind the file
are zero or not mapped (`page_end`). **FlvExtract** is the same on the tags of
FlvTags; `FollowsTags` is the refinement, with `pos`, `status` and the tags of
the pieces handed on as its mapping. `Init` is a file of any bytes, with
`flv.starts` where the stated sizes put its tags (`Laid`). `MCFlvParser` makes the
bytes from tags and works out apart from the parser what tags and units a cut
file still has; `Laid` holds of all those files (it leaves out none of the initial
states).

**TsFields** writes the clocks of a frame (`SecTo90kHz`, `StampBytes`,
`PcrBytes`, `AdtsBytes`) and reads them back as `ts::Parser` does (`ReadStamp`,
`ReadPcr`). A clock of 33 bits is a record of its three pieces, since TLC's
integers have 32. Doubles are modelled by their outcomes: the exact product, one
tick less where rounding may lose it, and for a negative number what the
processors make of it.

**MappedMemory** has the three mappings of each call of `libgetts` and the pages
of the process. `flv::Parser` keeps a copy of the third mapping, so two
destructors unmap it (`UnmapCopy`, `UnmapAgain`). `raced` remembers that some
file was mapped between those two. It is not kept per call: a call that has lost
its pages unmaps, at its own end, what was mapped there since, so one such
moment may go on to damage calls that began later.

Operators named `Something_variant` next to `Something` are seeded errors: what
the definition would be with a likely slip. They are not used by the
specifications; replacing the definition by one must make a property fail,
which shows that the property depends on that line of the code.

## 3. What the runs check

| Run | Module, cfg | Shows | States |
|---|---|---|---|
| TsWrite | `MCTsWrite` | `TypeOK`, `PacketsWellFormed`, `CounterContinuity`, `PacketCount`, `EveryCallReturns`, the refinement `Delivers` | 287 455 |
| PesLength | `MCTsWritePes.cfg` | **violated**: `PesLengthStated` | |
| Flv2ts | `MCFlv2ts` | `TypeOK`, `PsiCadence`, `ParameterSetsOncePerFile`, `EveryTagOnce`, `ContinuityAcrossFiles`, `FilesHaveTheirDuration` on 13 901 files | 100 470 |
| StaleParameterSets | `MCFlv2tsStale.cfg` | **violated**: `LatestParameterSets` | |
| HlsPipeline | `MCHlsPipeline` | `TypeOK`, `SameSegment`, `NeverForeign`, `PlaylistServable`, `ListedGetsIndexed` | 599 706 |
| OutOfRange | `MCHlsOutOfRange.cfg` | **violated**: `OutOfRangeRefused` | |
| TsExtract | `MCTsExtract` | `ParserTypeOK`, `ExtractedAsAnnounced`, `NothingLostOfOneProgram` | 3 709 083 |
| RoundTrip | `MCTsRoundTrip` | `ReadersAccept`, `PayloadsReadBack` | 3 669 462 |
| FlvParser | `MCFlvParser` | `TypeOK`, `LayoutFollowed`, the refinement `FollowsTags` | 596 088 |
| TsFields | `MCTsFields` | `FieldsDecode`, `ClocksAgree` | 1 307 665 |
| StampsRead | `MCTsFieldsRead.cfg` | **violated**: `ClocksReadBack` | |
| MappedMemory | `MCMappedMemory` | `TypeOK`, `HarmOnlyBetween` | 44 022 |

### Bounds, and why they are enough

* **TsWrite**: payload sizes are the ones at which the code changes course: 0,
  156, 157, 158 (a first packet holds 157), 339, 340, 341 (182, 183, 184 bytes
  left), and 3468 (20 packets, so the 4-bit counter wraps within a call). Three
  calls, on either stream, with two pairs of tables anywhere between them. The modulus is 32 instead
  of 2^32, and audio starts at 15, so both the 4-bit field and the counter
  wrap. The proofs below remove all these bounds.
* **Flv2ts**: all files of up to three tags over 12 tags that reach every
  branch, with each way to end, and files of a header and up to four media
  tags. Timestamps are 4-bit, from -1 to 7 with `Duration` 2, so limits wrap
  and timestamps go back. The headers announce the widths 4 and 2, and there are
  NALUs that both cut alike, that both cut differently, and that only one cuts. An
  interval of 3 packets stands for 50, and one tag
  has 17 packets, so tables are due in the middle of a file and not. With set
  `a` in front, a 100-byte payload just fills a packet; with `b`, `c` it needs
  two: forgetting the sets changes the counters.
* **HlsPipeline**: 18 files, most a header followed by up to five tags, giving
  one to four segments, with every way to end; second headers with other parameter
  sets, and with another width behind NALUs that it cuts otherwise or not at all; requests for 0, 1 and 2, which
  exist or not; 3 entries per page instead of 512, so the end of a page is met;
  the indexer is run again once, so that every mixture of an old and a new
  index, playlist and configuration is met.
* **TsExtract**: every sequence of up to four packets of nineteen kinds: two PATs,
  PMTs of two programs, without descriptors, with some that are turned down and with
  some that pass for a stream, PES packets of three streams, adaptation fields of 0,
  183 and 184 bytes, a header that spills, one that begins behind its packet, one with
  bad time stamps, null packets, a lost sync byte; and the empty file. Two tables, a second PMT and a packet are four, so
  every change of the tables is met with a packet behind it.
* **RoundTrip**: payloads of 0 bytes (stuffed), 340 (183 bytes are left behind the
  first packet) and 341 (184), three calls and two pairs of tables, read at every
  length of the output.
* **FlvParser**: every file of one or two tags of 24 kinds and four file headers,
  cut after each byte, and files of up to three of the tags a loop goes on
  behind, with and without trailer; with the file ending with its page or
  not. Two tags are enough for what one leaves to the next (cursor and width),
  three for a configuration that replaces another.
* **TsFields**: two frames, on both sides of 2^32 and 2^33 ticks, of the clock and
  of the 0.1 seconds behind it, the largest and two negative timestamps, frame
  sizes at the edges of each byte of the length.
* **MappedMemory**: three threads (one whose pages are taken, one that takes
  them, one that is hurt later), five pages, an FLV file of two; the threads are
  symmetric.

Deadlock is not checked: programs end, and a process that has crashed stays so.

### Fairness

* TsWrite: `WF(Serve)`. A call that has begun waits for nothing, so the process
  goes on. Nothing makes a caller call.
* HlsPipeline: `WF(Segment)`, `WF(Serve \/ Leave)`: processes run on. `SF` for
  the indexer, because the model lets it stand still while getts reads the FLV
  file (which nobody writes, so this loses no behaviour of either); weak
  fairness would then let requests in a row stop it, and the scheduler of an
  operating system does not. Requests, kills and further runs of the indexer have
  no fairness.
* The other modules state safety only. (FlvParser and TsParser need no liveness
  property: a turn of their loops never waits, and LayoutFollowed and
  ParserTypeOK have it that the cursor follows the file.)

### Where the code disagrees with what it says

1. **PES length** (`ts_write.hh:239`, `396`): `13 + payload.size()` in 16 bits.
   A 65523-byte payload states 0, which `pes.hh:40` allows for video only, and
   a larger one states a wrong number.
2. **Stale parameter sets** (`avc_decoder_configuration_record.hh:72,88,107`):
   `parse` replaces the count and appends to the list. From the second header
   on, flv2ts keeps writing the first one's sets. getts uses the last header of
   the whole file, for all segments, so `SameSegment` holds only for
   files with one configuration (`OneConfiguration`). It also cuts the NAL units of
   all segments by the length width of the last header: where headers differ in it, a
   segment in front of the last may end in `to_strage_format() failed`
   (`getts.cc:147-150`) or come out with other bytes. `PlaylistServable`, and the
   part of `NeverForeign` about giving up, are for files with one width
   (`OneWidth`), whatever parameter sets they announce; that nothing of another
   segment is sent holds for all files.
3. **Range check** (`getts.cc:55`, `lib/getts.cc:49`): 4-byte words are
   counted, entries have 8 bytes. A number that no segment has ends with
   success and two tables, or with an address that is not mapped.
4. **Clocks read back** (`ts/parser.hh:151,402`): the halves of a time stamp are
   kept in `uint8_t`, the upper part of the PCR is added at bit 16. The fields
   are declared with 33 and 48 bits (`pes.hh:28`, `adaptation_field.hh:19`).
   Only `parse-ts` prints them.

A slip without consequences: `avc_decoder_configuration_record.hh:131` takes
`bit_depth_chroma_minus8` from the byte of the luma depth. No program uses it.

## 4. What is proved

TLC's runs are about small instances; the theorems are about all of these:

* TsWrite: every set of payload sizes (`PayloadSizes \subseteq Nat`), every
  counter modulus that 16 divides (`CounterModAssumption`; 2^32 is one), every
  start (`StartAssumption`) and any bounds on the calls (`MaxCalls`, `MaxTables`).
* Flv2ts and HlsPipeline: every set of FLV files (`FilesAssumption`: sequences of
  tags of any length), even `TimeMod`, any `Duration` below it, sizes of
  parameter sets and interval. HlsPipeline: also any segment numbers asked for,
  any number of entries per page and any number of further runs of the indexer.
* TsParser: every file of packets whose fields fit their widths (`ParserInit`,
  `InputPacket`), with tables that announce each PID once and neither of the two
  reserved ones, and program descriptors that are misread as any streams, with PIDs
  announced twice or reserved; the two theorems about what is extracted are
  for files where none are (`NoneMisread`). TsRoundTrip: the assumptions of TsWrite, with
  a reader that is started at any moment.
* FlvParser: every file of any bytes.
* TsFields: all timestamps, composition times and frame sizes.
* MappedMemory: any set of threads, number of pages and sizes of files.

| Theorem | Statement |
|---|---|
| `TsWriteProofs!TypeCorrect` | `Spec => []TypeOK` |
| `TsWriteProofs!WellFormedPackets` | `Spec => []PacketsWellFormed` |
| `TsWriteProofs!ContinuityHolds` | `Spec => []CounterContinuity` |
| `TsWriteProofs!PacketCountHolds` | `Spec => []PacketCount` |
| `TsWriteProofs!Implements` | `Spec => Delivers`, that is `Stream!Spec` |
| `Flv2tsProofs!TypeCorrect` | `Spec => []TypeOK` |
| `Flv2tsProofs!PsiCadenceHolds` | `Spec => []PsiCadence` |
| `Flv2tsProofs!EveryTagOnceHolds` | `Spec => []EveryTagOnce` |
| `Flv2tsProofs!ParameterSetsHold` | `Spec => []ParameterSetsOncePerFile` |
| `Flv2tsProofs!ContinuityHolds` | `Spec => []ContinuityAcrossFiles` |
| `Flv2tsProofs!DurationsHold` | `Spec => []FilesHaveTheirDuration` |
| `TsRoundTripProofs!ParserTypeCorrect` | `ParserSpec => []ParserTypeOK` |
| `TsRoundTripProofs!ExtractedHolds` | `ParserSpec => []ExtractedAsAnnounced` |
| `TsRoundTripProofs!NothingLostHolds` | `ParserSpec => []NothingLostOfOneProgram` |
| `TsRoundTripProofs!ReadersAcceptHolds` | `RoundTripSpec => []ReadersAccept` |
| `TsRoundTripProofs!PayloadsReadBackHolds` | `RoundTripSpec => []PayloadsReadBack` |
| `HlsPipelineProofs!PipelineTypes` | `Spec => []TypeOK` |
| `HlsPipelineProofs!NothingForeign` | `Spec => []NeverForeign` |
| `HlsPipelineProofs!SegmentsAgree` | `Spec => []SameSegment` |
| `HlsPipelineProofs!PlaylistIsServed` | `Spec => []PlaylistServable` |
| `FlvParserProofs!ParserTypes` | `Spec => []TypeOK` |
| `FlvParserProofs!LayoutHolds` | `Spec => []LayoutFollowed` |
| `TsFieldsProofs!FieldsDecodeHolds` | `Spec => []FieldsDecode` |
| `TsFieldsProofs!ClocksAgreeHolds` | `Spec => []ClocksAgree` |
| `MappedMemoryProofs!TypeCorrect` | `Spec => []TypeOK` |
| `MappedMemoryProofs!HarmOnlyBetweenHolds` | `Spec => []HarmOnlyBetween` |

### The packet writers

* The layout lemmas (`FirstLayout`, `RestLayout`) do the arithmetic once: with
  no stuffing a first packet has room for 157 bytes (video) or 157 (audio); a
  retried one has room for exactly the payload; a further packet takes at
  least one byte, and all of the rest unless that is 183 or at least 184.
* `TypeInv` = `TypeOK /\ PhaseInv`. `TypeOK` is not inductive: that
  `af_length` fits its byte needs to know that the stuffing is either 0 or what
  the payload lacks of 157 bytes, and that `data_offset` stays within
  the payload. `PhaseInv` says so, phase by phase.
* `PacketsWellFormed` is inductive together with `TypeInv`; a packet already
  written is not disturbed by later calls (`WellFormedKept`).
* `CounterContinuity` is inductive with `TypeInv`: its first half (the counter
  kept continues the latest packet) is what the second half needs at the next
  packet. `ContinuityAppend` treats one packet on its own stream,
  `ContinuityTables` the tables. That 16 divides the modulus is used
  where a counter wraps (`Counters`).
* `PacketCount` needs `CallCount`: packets written so far plus packets the
  rest needs are `NumPackets` of the call. `RestPacketsStep` shows that a
  further packet lowers `RestPackets` by one, also from 183 bytes to one.
* For the refinement, `CallsInv` says which packets belong to the call being
  served and that earlier calls are complete, `LatestInv` that the counter kept
  is the one the abstract stream expects. `EmitStep`, `TablesStep` and
  `SubmitStep` map the actions; `Retry` and `Return` stutter.

PAT and PMT packets always have counter 0; continuity is about the two
elementary streams.

### flv2ts

The properties speak of `out`, which grows by up to two units a turn (the tables
and the payload), so each has a form that says the same of any sequence of units
and whatever the next turn needs to know: `Ordered`, `Cadence`, `Tags`,
`Continuity`, `SetsOnce`, `Durations`. They are operators of a sequence, so that
one lemma about `Append` for tables and one for a payload serves every action
(`CadenceTables`, `CadenceMedia`, ...). `IInv` is their conjunction with
`TypeInv` and `ConfInv`, and none is inductive alone:

* `Cadence` needs that `g_output_ts_count` is where the last unit ends
  (`Ordered`), and adds that tables of the current file lie less than an interval
  before `next_prev_pat_pmt_output`;
* `Durations` adds that `next_timestamp` is the time of the tag that opened the
  current file plus `Duration`, which uses that the sum does not wrap
  (`PlainTimestamps`);
* `SetsOnce` ties `sps_pps_write` to whether the current file has a video unit,
  and `ConfInv` says what the record holds while the input has announced one
  configuration: the lists may have grown, their fronts are still the same
  (`SubSeqFront`);
* `Continuity` adds that the counter kept continues the latest unit of its
  stream, or is zero if there is none.

`OpenedInv` carries all of it over lines 73-106, `NoPayloadStep` and
`PayloadStep` over the rest of a turn; each action then is one of the two. That
a unit has at least one packet and a natural number of them rests on
`FlvTagsProofs`: `SetsSizeType` reads the recursive function by taking a least
number at which it fails (`LeastElement`), which is what an induction comes to
without a theorem that takes an operator.

### The HLS pipeline

flv2ts, the indexer and getts never exchange a message: what they have in common
is the FLV file. `Loop(f)` is the main loop of flv2ts as a function of the file
alone, `Loop(f)[p]` its variables in front of tag `p`. That the recursive function
exists is `LoopSteps`, by `PositionInduction`.

* `FInv` has flv2ts at a point of `Loop(flv)` whenever it is between two tags, and
  `LastSeq`, `LastOut` are what it leaves; `BLoop` has the indexer at a point of
  the same loop, in its first or its current run.
* `IsEntry` says of the n-th entry of the index that segment n begins there, with
  the counters that the loop has there. It does not mention the run that wrote
  the entry, so a torn read of two entries from two runs is harmless: both
  are determined by the file (`FilesInv`).
* `EntriesInv` and `StreamInv` say what getts has read and made: between two
  entries (`InSegment`) it is at a point of the loop inside one segment, with the units that
  flv2ts has for it there, or has given up at the tag it has reached
  (`GaveUp`). `InStep` compares the two programs' states; the
  configuration is the one in force for `SameSegment` only if the file announces
  one (`SetsOfLoop`), which is where `OneConfiguration` is used.
* `Between`, `NothingBefore` and `NothingBehind` place the cuts: the segment
  number grows with the position (`SeqGrows`), so no tag of a segment lies outside
  its two entries. `TagsOfSegment` then reads `NeverForeign` off the loop.
* `ServableInv` ties the playlist of a run that has returned to its index: as
  many entries as lines and one more, all of them on disk, and a configuration.
  `BoundServed` shows that a request for a listed segment meets no refusal on the
  way, and `NeverRefused` that it meets none in the loop if the headers have one width:
  the width in `.avc_conf` is then the one that flv2ts cut the same tags by
  (`OneWidthOf`).

### The TS parser

The parser decides packet by packet on two lists, the properties by the tables of
the whole file in front of a packet. `ParserInv` ties the two: `pmt_map` is what the
last PAT listed (`PatInv`), `stream_info_list` what the last PMT did (`PmtInv`,
as long as `NoneMisread`; `ParserTypeInv`, the part without that hypothesis, is
inductive alone and gives `ParserTypeOK`),
and every packet in front of the position that counts as a table was one, or the
program would have ended there (`TablesRead`). `Classified` then says that
`get_payload_type` and `is_*_packet` agree with `IsPat`, `IsPmt` and `OfStream`
about the next packet; it uses that a PID is announced once, since the parser
takes the first entry and `OfStream` any, and that no table announces the PIDs of
the PAT and of null packets, which the parser looks for first. `GoOnStep` carries
the invariant over a turn. `NothingLostHolds` also needs that wherever there was a
PMT there was a last one (`Lasts`).

### The round trip

* `OutInv` is about the writers: the packets of a call lie behind each other from
  where the call was made (`calls[u].start`), the first begins at byte 0, each
  other where the one before it ends, and the last ends with the payload
  (`EndsAt`). Tables lie between calls. It is inductive with the invariants of
  TsWriteProofs (`OnePacket`, `TablesLaid`, `CallMade`).
* `ReaderInv` is about the reader: its file are the first packets of the output
  as the parser meets them, and what it copies of a packet begins behind the
  headers really written. Which packets it copies is `ParserInv`, the invariant of
  the TS parser, for these files satisfy `ParserInit` and, having no program
  descriptors, `NoneMisread` (`NoDescriptors`).
* For `PayloadsReadBack`, `StreamOf` shows that the announced packets of a file of
  the writers are those of the calls in `Wanted`; `Neighbours` that two pieces
  extracted one after the other come from packets with none of the stream
  between, so `PieceFollows` can use where `OutInv` puts them; `NoneMissing` is
  the completeness at the end.
* For `ReadersAccept`, `GoodPacket` goes through the parser's conditions for each
  packet of the output, from the invariants of TsWriteProofs.

### The FLV parser

`InOrder(s, a, b)` says of pieces that they lie between two bytes of the file, one
behind the other; `Join` puts two such sequences together. The invariant adds to
`TypeOK` that all that is written lies in front of the cursor. `TagFacts` is the
arithmetic of a tag whose header is larger than its data: whatever `HeaderSize`
is, `After` lies `15 + DataSize` behind the cursor. `NumberType` and `UnitsInOrder`
show of the recursive functions `Number` and `Units` that they exist and that the
units of a NALU lie in order within it: the function is built up from the end of the
NALU, byte by byte, with an induction over a set of numbers (`UpTo`).
`LayoutHolds` adds `Laid`: a turn never gets behind the last of `flv.starts`, since
what lies there is not a tag or not whole.

### The clocks

`IInv` says of each frame that its bytes are those of its clocks and its size
(`Written`); the clocks are stamps of 33 bits however they were rounded
(`SecTo90kHzStamps`, `PlusStamp`). `StampDecodes`, `PcrDecodes` and
`LengthDecodes` are the arithmetic of the codecs, for all stamps and all lengths
of up to 8184 bytes.

For `ClocksAgree`, a stamp is the number of its ticks modulo 2^33 (`StampOf`), and
`PiecesJoined`, `TicksOf` and `SumOf` show that products with 90 and sums of
stamps, carries and all, are those of the numbers. `ClocksInv` then has each clock
within a tick of 90 times its timestamp, and `NearOf` takes the difference of two.

### The mappings

`HarmOnlyBetween` is not inductive: a call that is between its two destructors
may hold pages that another has mapped. `Safe` adds that it does not: its pages
and those of a call in use are apart. Only `Map` could change that, and `raced`
notes it. `TypeOK` needs nothing more than itself.

### What is only model-checked

* `EveryCallReturns` and `ListedGetsIndexed`: liveness is out of the prover's
  reach. (The arithmetic core of the first, that every further packet takes at
  least one byte, is part of `RestLayout`.)
* `FollowsTags`: the tags that it compares the bytes with are made by recursive
  operators of `MCFlvParser`, and that `Units`, `SetsEnd` and those operators
  agree for every file needs an induction over the bytes. What is proved of every
  file is where the turns begin and where the pieces lie.

## 5. Abstractions and what is not modelled

* Bytes: payloads have no contents. The fields that a decision is made on have
  values where the decision is made (FlvParser, TsParser), clocks and lengths in
  TsFields. The other fields of the headers are constants in the code.
* In Flv2ts, BuildHlsIndex and GetTs what cutting a NALU by a width comes to is a
  field of the tag (`storage`), any number or a failure for each width; FlvParser
  has the cutting itself, of bytes. FlvExtract has the tags as the width in force
  cuts them, one that it does not cut being a `bad_nalu`.
* `g_output_ts_count` does not wrap in Flv2ts and GetTs (it would take
  800 GB of output); TsWrite has the wrap. Two threads of libgetts may lose
  counts in it (a data race); the library never reads it.
* The position in an index entry is 32 bits wide and wraps in files of 4 GiB or
  more; positions in the models are numbers of tags.
* How much of `.ts_idx` reaches the disk before the stream is closed is any
  number of entries, not a multiple of the buffer's size: more behaviours than
  the code has, so the properties are shown for every buffer size.
* What program descriptors are misread as is any list of streams and not worked out
  from their bytes. Of the reasons why a file cannot be opened the readers of
  transport streams have the one a writer can cause, that it is empty.
* A NALU before any sequence header reads uninitialised numbers, a configuration
  that is replaced while it is read may be a mixture, a null payload is used:
  the models go to a state `undefined` and say no more.
* In HlsPipeline one request at a time: requests change nothing outside their
  process. What calls from several threads do to each other's mappings is in
  MappedMemory, where the contents of the files are left out.
* In MappedMemory a page that is mapped again is not read by a call that has
  lost it as anything in particular; the model only tells mapped from not mapped.
  Only mappings of files are there: the anonymous ones of the allocator, which may
  also come to lie where the second `munmap` hits, are not.
* What `parse-ts` and `parse-flv` print, the messages on the error streams, the
  checksum of the tables (a table look-up that no decision rests on: the parser
  does not verify it) and `src/Makefile`.

## 6. Plan

Done: the writers; the FLV pipeline with kills, further runs and torn reads; both
parsers on what other programs may write, and on what these programs do; clocks
and lengths; the mappings of the library. Every invariant that a run checks is
a theorem, and so is the refinement of TsStream.

Next, in this order:

1. A refinement of FlvExtract that does without the tags of `MCFlvParser`: the
   kinds of tags read off the bytes of the file by functions, so that `FollowsTags`
   can be stated, and its steps proved, for every file.
2. An abstract specification of the pipeline (a segment store that serves what
   flv2ts wrote), with HlsPipeline as its implementation; its invariants are the
   refinement's.
