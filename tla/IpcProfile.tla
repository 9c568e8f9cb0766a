------------------------------- MODULE IpcProfile -------------------------------
(***************************************************************************)
(* INI files: IPC_getPrivateProfileString and IPC_writePrivateProfileString *)
(* of linux/libsrc/sysipc.cpp, and the read of qnx/sysipc.cpp, which       *)
(* compares differently.                                                   *)
(*                                                                         *)
(* A write reads the whole file, closes it, opens it again in a mode that  *)
(* truncates it, and writes what it had read with one line changed; there  *)
(* is no lock and no second file.  It looks for the section and the key as *)
(* they are spelled, where a read ignores case.                            *)
(*                                                                         *)
(* A file is a sequence of lines; lines without a section or an option, as *)
(* comments, play no part, each line has its newline, a section ends with  *)
(* its bracket, and values have neither brackets nor signs of comments.  A *)
(* file is read in one step, and written in one; lines are as long as each *)
(* other where two writes cover each other.                                *)
(***************************************************************************)
EXTENDS Naturals, Sequences, FiniteSets, FiniteSetsExt

CONSTANTS
  Writer,        (* processes that write                                      *)
  SectionWord,   (* names of sections, as they are spelled                    *)
  KeyWord,       (* names of options, as they are spelled                     *)
  Lower,         (* their lower case                                          *)
  StartsWith,    (* <<x, y>>: the lower case of x starts with that of y       *)
  LooksLike,     (* <<x, v, y>>: y occurs anywhere in the lower case of the   *)
                 (* line x=v, and where y would end, had the line begun with  *)
                 (* it, there is a blank or the sign of equality              *)
  Value,         (* values of options                                         *)
  NoValue,       (* the answer for an option that is not there                *)
  File,          (* the files to begin with                                   *)
  MaxWrites      (* bound of the model: writes that begin                     *)

Word == SectionWord \cup KeyWord
Line == [kind : {"section"}, name : SectionWord]
          \cup [kind : {"option"}, name : KeyWord, value : Value]

ASSUME ProfileAssumption ==
  /\ Lower \in [Word -> Word]
  /\ StartsWith \subseteq Word \X Word
  /\ \A x \in Word : <<x, x>> \in StartsWith
  /\ LooksLike \subseteq KeyWord \X Value \X KeyWord
  /\ \A x, y \in KeyWord, v \in Value : Lower[x] = Lower[y] => <<x, v, y>> \in LooksLike
  /\ SectionWord # {} /\ KeyWord # {} /\ Value # {}
  /\ NoValue \notin Value
  /\ \A f \in File : f \in Seq(Line)
  /\ MaxWrites \in Nat

VARIABLES
  file,          (* the contents of the file                                  *)
  wstep,         (* the next step of each writer                              *)
  pBuf,          (* what it is going to write                                 *)
  job,           (* the section, key and value that its write is about        *)
  image,         (* history: the file as its write read it                    *)
  writes,        (* history: how many writes have begun                       *)
  overlapped,    (* history: a write began before another had ended           *)
  cut_short,     (* history: a writer died between truncation and writing     *)
  garbled,       (* history: a write found the file empty                     *)
  written        (* history: the jobs that were done, in their order          *)

outcomes == <<writes, overlapped, cut_short, garbled, written>>
profileVars == <<file, wstep, pBuf, job, image, outcomes>>

Job == [section : SectionWord, key : KeyWord, value : Value]
NoJob == [section |-> CHOOSE s \in SectionWord : TRUE, key |-> CHOOSE k \in KeyWord : TRUE,
          value |-> CHOOSE v \in Value : TRUE]

ProfileTypeOK ==
  /\ file \in Seq(Line)
  /\ wstep \in [Writer -> {"idle", "read", "open", "write"}]
  /\ pBuf \in [Writer -> Seq(Line)]
  /\ job \in [Writer -> Job]
  /\ image \in [Writer -> Seq(Line)]
  /\ writes \in 0 .. MaxWrites
  /\ {overlapped, cut_short, garbled} \subseteq BOOLEAN
  /\ written \in Seq(Job)

ProfileInit ==
  /\ file \in File
  /\ wstep = [w \in Writer |-> "idle"]
  /\ pBuf = [w \in Writer |-> <<>>]
  /\ job = [w \in Writer |-> NoJob]
  /\ image = [w \in Writer |-> <<>>]
  /\ writes = 0
  /\ overlapped = FALSE /\ cut_short = FALSE /\ garbled = FALSE
  /\ written = <<>>

-----------------------------------------------------------------------------
IsSection(l) == l.kind = "section"
IsOptionName(l) == l.kind = "option"

(* The comparisons of a read.  On Linux it looks for the name of an option *)
(* in the whole line, the value included; on QNX it looks at as much of    *)
(* the line as the name that it is asked for has.                          *)
FindSection(l, s) == IsSection(l) /\ Lower[l.name] = Lower[s]
FindOption(l, k) == IsOptionName(l) /\ <<l.name, l.value, k>> \in LooksLike
FindSection_qnx(l, s) == IsSection(l) /\ <<l.name, s>> \in StartsWith
FindOption_qnx(l, k) == IsOptionName(l) /\ <<l.name, k>> \in StartsWith

(* The read: the first option of that name after the section, in whatever  *)
(* section it is.                                                          *)
FirstValue(f, hits) == IF hits = {} THEN NoValue ELSE f[Min(hits)].value

IPC_getPrivateProfileString(f, s, k) ==
  FirstValue(f, {j \in DOMAIN f : FindOption(f[j], k) /\ \E i \in 1 .. j : FindSection(f[i], s)})

IPC_getPrivateProfileString_qnx(f, s, k) ==
  FirstValue(f, {j \in DOMAIN f : FindOption_qnx(f[j], k) /\ \E i \in 1 .. j : FindSection_qnx(f[i], s)})

(* The search of a write: the section spelled so, and in it the option     *)
(* spelled so, or the line of the next section, or the end of the file.    *)
SectionLine(f, s) == {i \in DOMAIN f : IsSection(f[i]) /\ f[i].name = s}
StopLine(f, h, k) ==
  Min({j \in h + 1 .. Len(f) : IsSection(f[j]) \/ f[j].name = k} \cup {Len(f) + 1})

(* The lines that a write may put in. *)
OptionLine(j) == [kind |-> "option", name |-> j.key, value |-> j.value]
HeadLine(j) == [kind |-> "section", name |-> j.section]

(* Mutant: the line of the next section is lost. *)
Rewritten_Headless(f, j) ==
  LET h == Min(SectionLine(f, j.section))
      e == StopLine(f, h, j.key)
  IN IF SectionLine(f, j.section) = {}
     THEN f \o <<HeadLine(j), OptionLine(j)>>
     ELSE SubSeq(f, 1, e - 1) \o <<OptionLine(j)>> \o SubSeq(f, e + 1, Len(f))

(* The new contents: the option takes the place of its old line, or goes   *)
(* to the end of its section, or comes with a new section at the end.      *)
Rewritten(f, j) ==
  LET h == Min(SectionLine(f, j.section))
      e == StopLine(f, h, j.key)
  IN IF SectionLine(f, j.section) = {}
     THEN f \o <<HeadLine(j), OptionLine(j)>>
     ELSE SubSeq(f, 1, e - 1) \o <<OptionLine(j)>>
            \o SubSeq(f, IF e <= Len(f) /\ IsOptionName(f[e]) THEN e + 1 ELSE e, Len(f))

(* If the file is empty nothing ends the buffer before the two lines are   *)
(* appended to it: they come after whatever was in that memory, and are    *)
(* cut off by as much, so that each may be lost.                           *)
Jumbled(j) == {<<>>, <<HeadLine(j)>>, <<OptionLine(j)>>, <<HeadLine(j), OptionLine(j)>>}

-----------------------------------------------------------------------------
WGoto(w, from, to) ==
  /\ wstep[w] = from
  /\ wstep' = [wstep EXCEPT ![w] = to]

(* The call; another write that is on its way overlaps it. *)
IPC_writePrivateProfileString(w, j) ==
  /\ WGoto(w, "idle", "read")
  /\ writes < MaxWrites
  /\ writes' = writes + 1
  /\ job' = [job EXCEPT ![w] = j]
  /\ overlapped' = (overlapped \/ \E x \in Writer \ {w} : wstep[x] # "idle")
  /\ UNCHANGED <<file, pBuf, image, cut_short, garbled, written>>

(* Bound of the model: after a write has found the file empty, no other    *)
(* reads it.                                                               *)
ReadFile(w) ==
  /\ WGoto(w, "read", "open")
  /\ ~garbled
  /\ \E g \in (IF file = <<>> THEN Jumbled(job[w]) ELSE {Rewritten(file, job[w])}) :
       pBuf' = [pBuf EXCEPT ![w] = g]
  /\ image' = [image EXCEPT ![w] = file]
  /\ garbled' = (file = <<>>)
  /\ UNCHANGED <<file, job, writes, overlapped, cut_short, written>>

(* The fopen for writing. *)
TruncateFile(w) ==
  /\ WGoto(w, "open", "write")
  /\ file' = <<>>
  /\ UNCHANGED <<pBuf, job, image, outcomes>>

(* If it fails the write returns -1. *)
OpenFailed(w) ==
  /\ WGoto(w, "open", "idle")
  /\ pBuf' = [pBuf EXCEPT ![w] = <<>>]
  /\ image' = [image EXCEPT ![w] = <<>>]
  /\ UNCHANGED <<file, job, outcomes>>

(* From the start of the file: what another wrote beyond it stays. *)
WriteFile(w) ==
  /\ WGoto(w, "write", "idle")
  /\ file' = pBuf[w] \o SubSeq(file, Len(pBuf[w]) + 1, Len(file))
  /\ pBuf' = [pBuf EXCEPT ![w] = <<>>]
  /\ image' = [image EXCEPT ![w] = <<>>]
  /\ written' = Append(written, job[w])
  /\ UNCHANGED <<job, writes, overlapped, cut_short, garbled>>

(* The process ends at any step, and starts again. *)
WriterDies(w) ==
  /\ wstep[w] # "idle"
  /\ wstep' = [wstep EXCEPT ![w] = "idle"]
  /\ pBuf' = [pBuf EXCEPT ![w] = <<>>]
  /\ image' = [image EXCEPT ![w] = <<>>]
  /\ cut_short' = (cut_short \/ wstep[w] = "write")
  /\ UNCHANGED <<file, job, writes, overlapped, garbled, written>>

ProfileNext ==
  \E w \in Writer :
    \/ \E j \in Job : IPC_writePrivateProfileString(w, j)
    \/ ReadFile(w) \/ TruncateFile(w) \/ OpenFailed(w) \/ WriteFile(w)
    \/ WriterDies(w)

ProfileSpec == ProfileInit /\ [][ProfileNext]_profileVars

-----------------------------------------------------------------------------
(* A read finds something else, which has another name or spelling, before *)
(* it reaches what a write of s and k wrote.                               *)
Hidden(f, s, k) ==
  \E i, j \in DOMAIN f :
    /\ i < j
    /\ FindSection(f[i], s) /\ FindOption(f[j], k)
    /\ f[i].name # s \/ f[j].name # k

Hidden_qnx(f, s, k) ==
  \E i, j \in DOMAIN f :
    /\ i < j
    /\ FindSection_qnx(f[i], s) /\ FindOption_qnx(f[j], k)
    /\ f[i].name # s \/ f[j].name # k

LastJob == written[Len(written)]

(* What was written last is what is read next, on both systems, after any  *)
(* number of writes, reads that fail and processes that die before they    *)
(* truncate, unless writes overlapped, one died too late or found an empty *)
(* file; and unless a line before it is taken for the section or the key.  *)
WrittenIsRead ==
  (~overlapped /\ ~cut_short /\ ~garbled /\ written # <<>> /\ \A w \in Writer : wstep[w] # "write") =>
    LET s == LastJob.section  k == LastJob.key IN
    /\ Hidden(file, s, k) \/ IPC_getPrivateProfileString(file, s, k) = LastJob.value
    /\ Hidden_qnx(file, s, k) \/ IPC_getPrivateProfileString_qnx(file, s, k) = LastJob.value

(* Neither what a write puts in nor what it takes out is taken for k.      *)
Unlike(f, j, k) ==
  /\ ~FindOption(OptionLine(j), k)
  /\ \A i \in DOMAIN f : (IsOptionName(f[i]) /\ f[i].name = j.key) => ~FindOption(f[i], k)

(* What a write is about to put into the file reads like what it found     *)
(* there, for all keys of all sections that its lines are not taken for,   *)
(* unless it found an empty file.                                          *)
OtherKeysKept ==
  \A w \in Writer : (wstep[w] \in {"open", "write"} /\ image[w] # <<>>) =>
    \A s \in SectionWord, k \in KeyWord :
      /\ Unlike(image[w], job[w], k) =>
           IPC_getPrivateProfileString(pBuf[w], s, k) = IPC_getPrivateProfileString(image[w], s, k)
      /\ <<job[w].key, k>> \notin StartsWith =>
           IPC_getPrivateProfileString_qnx(pBuf[w], s, k) = IPC_getPrivateProfileString_qnx(image[w], s, k)

(* INI files: what is written is read, and nothing else is changed.        *)
ProfileSound == ProfileTypeOK /\ WrittenIsRead /\ OtherKeysKept
=============================================================================
