----------------------------- MODULE HLSRunProofs -----------------------------
(***************************************************************************)
(* What reaches the passes: for every set of files, and whatever the       *)
(* passes do, parse stops at the first line that offends, run() goes on    *)
(* only behind a file without one, the blocks it hands over hold each      *)
(* statement of the file once, in its place, and what the generator names  *)
(* in the design they end in is there.                                     *)
(***************************************************************************)
EXTENDS HLSRun, HLSTimeProofs

Lines0 == Seq(TextLine \cup {BlankLine})

\* The lines read so far do not offend, and function_parse is what the last
\* define among them was.
ReadSoFar ==
    /\ ln <= Len(file) + 1
    /\ function_parse # 0 <=> BadlyDefined(ln)
    /\ \A i \in 1..(ln - 1) : ~Offends(i)

\* The inductive invariant.  The passes stand still until parse has answered 0.
RunInv ==
    /\ file \in Lines0 /\ ln \in Nat \ {0}
    /\ where = "parse" => ReadSoFar /\ parse_error = 0
    /\ ErrorIsFirstOffence
    /\ pc # "enter" \/ b # 1 \/ design # "none" => Parsed

-----------------------------------------------------------------------------
(* Lines.                                                                  *)

\* A define behind which the next line stands decides for it.
LEMMA DefineDecides ==
    ASSUME file \in Lines0, NEW n \in 1..Len(file), ~file[n].blank, ~Text(n)
    PROVE  BadlyDefined(n + 1) <=> Len(file[n].keys) > 1 /\ file[n].keys[2] \notin {"int", "void"}
<1>1. n \in Defines(n + 1)
  BY DEF Defines
<1>2. \A g \in Defines(n + 1) : g \in 1..n
  BY DEF Defines
<1>3. ASSUME NEW h \in Defines(n + 1), \A g \in Defines(n + 1) : g <= h
      PROVE  h = n
  BY <1>1, <1>2, <1>3
<1> QED
  BY <1>1, <1>2, <1>3 DEF BadlyDefined

\* Any other line leaves it to those before.
LEMMA OtherLinesKeep ==
    ASSUME file \in Lines0, NEW n \in 1..Len(file), file[n].blank \/ Text(n)
    PROVE  BadlyDefined(n + 1) <=> BadlyDefined(n)
<1>1. Defines(n + 1) = Defines(n)
  BY DEF Defines, Text
<1> QED
  BY <1>1 DEF BadlyDefined

\* What parse_function answers is that of the line.
LEMMA SignatureOfDefine ==
    ASSUME NEW ks \in Seq(Names), ks # <<>>
    PROVE  BadSignature(Tail(ks)) <=> Len(ks) > 1 /\ ks[2] \notin {"int", "void"}
<1> DEFINE rest == Tail(ks)
<1>1. /\ rest \in Seq(Names) /\ Len(rest) = Len(ks) - 1
      /\ \A j \in 1..Len(rest) : rest[j] = ks[j + 1]
  BY HeadTailProperties
<1> HIDE DEF rest
<1>2. rest # <<>> <=> Len(rest) > 0
  BY <1>1, EmptySeq
<1>3. Len(rest) > 0 => rest[1] = ks[2]
  <2>1. HAVE Len(rest) > 0
  <2>2. 1 \in 1..Len(rest)
    BY <1>1, <2>1
  <2> QED
    BY <1>1, <2>2
<1>4. Len(rest) > 0 <=> Len(ks) > 1
  BY <1>1
<1>5. BadSignature(rest) <=> Len(ks) > 1 /\ ks[2] \notin {"int", "void"}
  BY <1>2, <1>3, <1>4 DEF BadSignature
<1> QED
  BY <1>5 DEF rest

\* What offends is a matter of the file, which nobody writes.
LEMMA SameFile ==
    ASSUME UNCHANGED file
    PROVE  \A n : (BadlyDefined(n)' <=> BadlyDefined(n)) /\ (Offends(n)' <=> Offends(n))
BY DEF Offends, BadlyDefined, Defines, Text, Malformed, ShortAssignment

\* The line that is read next.
LEMMA LineRead ==
    ASSUME file \in Lines0, ln \in Nat \ {0}, Reading
    PROVE  /\ ln \in 1..Len(file) /\ Keys \in Seq(Names)
           /\ ~file[ln].blank => (Text(ln) <=> ~IsDefine)
<1>1. ln \in 1..Len(file)
  BY DEF Reading, Lines0
<1>2. file[ln] \in TextLine \cup {BlankLine}
  BY <1>1 DEF Lines0
<1>3. Keys \in Seq(Names)
  <2>1. CASE file[ln] \in TextLine
    BY <2>1 DEF Keys, TextLine
  <2>2. CASE file[ln] = BlankLine
    BY <2>2, EmptySeq DEF Keys, BlankLine
  <2> QED
    BY <1>2, <2>1, <2>2
<1>4. Keys # <<>> <=> Len(Keys) > 0
  BY <1>3, EmptySeq
<1> QED
  BY <1>1, <1>3, <1>4 DEF Text, IsDefine, Keys

-----------------------------------------------------------------------------
(* Steps of the parser.                                                    *)

\* A line that does not offend is read, and function_parse goes with it.
LEMMA ReadsOn ==
    ASSUME RunInv, Reading, NextLine, UNCHANGED passes, ~Offends(ln),
           function_parse' # 0 <=> BadlyDefined(ln + 1)
    PROVE  RunInv'
<1>1. ln' = ln + 1 /\ where' = "parse" /\ parse_error' = 0 /\ UNCHANGED file
  BY DEF NextLine, Reading, RunInv
<1>2. ln \in 1..Len(file) /\ ln \in Nat \ {0} /\ file \in Lines0
  BY LineRead DEF RunInv
<1>3. \A i \in 1..ln : ~Offends(i)
  BY <1>2 DEF RunInv, ReadSoFar, Reading
<1>4. ReadSoFar'
  <2>1. (ln <= Len(file) + 1)'
    BY <1>1, <1>2 DEF Lines0
  <2>2. (function_parse # 0 <=> BadlyDefined(ln))'
    BY <1>1, SameFile DEF BadlyDefined, Defines
  <2>3. (\A i \in 1..(ln - 1) : ~Offends(i))'
    BY <1>1, <1>2, <1>3, SameFile
  <2> QED
    BY <2>1, <2>2, <2>3 DEF ReadSoFar
<1>5. pc' = "enter" /\ b' = 1 /\ design' = "none"
  BY DEF RunInv, Parsed, Reading, passes, text, graph, issue, cursor, regs, result
<1> QED
  BY <1>1, <1>2, <1>4, <1>5 DEF RunInv, ErrorIsFirstOffence

\* So is a line that is no define, when no define before it was refused.
LEMMA ReadsStatement ==
    ASSUME RunInv, StatementLine, NextLine, UNCHANGED <<function_parse, passes>>,
           ~Malformed(Keys), ~ShortAssignment(Keys)
    PROVE  RunInv'
<1>1. Reading /\ ~file[ln].blank /\ ~IsDefine /\ function_parse = 0
  BY DEF StatementLine
<1>2. ~BadlyDefined(ln)
  BY <1>1 DEF RunInv, ReadSoFar, Reading
<1>3. ~Offends(ln)
  BY <1>2 DEF Offends, Keys
<1>4. ln \in 1..Len(file) /\ Text(ln) /\ file \in Lines0
  BY <1>1, LineRead DEF RunInv
<1>5. function_parse' # 0 <=> BadlyDefined(ln + 1)
  BY <1>1, <1>2, <1>4, OtherLinesKeep
<1> QED
  BY <1>1, <1>3, <1>5, ReadsOn DEF passes

\* parse returns 1 at a line that offends.
LEMMA Refuses ==
    ASSUME RunInv, Reading, Return(1), UNCHANGED passes, Offends(ln)
    PROVE  RunInv'
<1>1. where' = "returned" /\ parse_error' = 1 /\ UNCHANGED <<file, ln>>
  BY DEF Return
<1>2. Offends(ln) /\ \A i \in 1..(ln - 1) : ~Offends(i)
  BY DEF RunInv, ReadSoFar, Reading
<1>3. (Offends(ln) /\ \A i \in 1..(ln - 1) : ~Offends(i))'
  BY <1>1, <1>2, SameFile DEF Offends, BadlyDefined, Defines, Text
<1>4. pc' = "enter" /\ b' = 1 /\ design' = "none"
  BY DEF RunInv, Parsed, Reading, passes, text, graph, issue, cursor, regs, result
<1> QED
  BY <1>1, <1>3, <1>4 DEF RunInv, ErrorIsFirstOffence

\* Each action of the parser keeps the invariant.
LEMMA ParseKeeps == RunInv /\ Parse => RunInv'
<1> SUFFICES ASSUME RunInv, ParserNext, UNCHANGED passes
             PROVE  RunInv'
  BY DEF Parse
<1> USE DEF RunInv
<1>1. CASE SkipBlank
  <2>1. Reading /\ NextLine /\ file[ln].blank /\ UNCHANGED function_parse
    BY <1>1 DEF SkipBlank
  <2>2. ln \in 1..Len(file) /\ ~Offends(ln)
    BY <2>1, LineRead DEF Offends, Text
  <2>3. function_parse' # 0 <=> BadlyDefined(ln + 1)
    BY <2>1, <2>2, OtherLinesKeep DEF Reading, ReadSoFar
  <2> QED
    BY <2>1, <2>2, <2>3, ReadsOn
<1>2. CASE DefineLine
  <2>1. /\ Reading /\ NextLine /\ ~file[ln].blank /\ IsDefine
        /\ function_parse' = IF BadSignature(Tail(Keys)) THEN 1 ELSE 0
    BY <1>2 DEF DefineLine
  <2>2. ln \in 1..Len(file) /\ Keys \in Seq(Names) /\ Keys # <<>> /\ ~Text(ln)
    BY <2>1, LineRead DEF IsDefine
  <2>3. BadSignature(Tail(Keys)) <=> BadlyDefined(ln + 1)
    BY <2>1, <2>2, SignatureOfDefine, DefineDecides DEF Keys
  <2>4. function_parse' # 0 <=> BadlyDefined(ln + 1)
    BY <2>1, <2>3
  <2> QED
    BY <2>1, <2>2, <2>4, ReadsOn DEF Offends
<1>3. CASE AfterBadDefine
  <2>1. Reading /\ Return(1) /\ ~file[ln].blank /\ ~IsDefine /\ function_parse # 0
    BY <1>3 DEF AfterBadDefine
  <2>2. Offends(ln)
    BY <2>1, LineRead DEF Offends, Reading, ReadSoFar
  <2> QED
    BY <2>1, <2>2, Refuses
<1>4. CASE LabelLine
  <2>1. ~Malformed(Keys) /\ ~ShortAssignment(Keys)
    BY <1>4 DEF LabelLine, Malformed, ShortAssignment, IsOperation, IsAssignment
  <2> QED
    BY <1>4, <2>1, ReadsStatement DEF LabelLine
<1>5. CASE ParseStatement
  <2>1. ~Malformed(Keys) /\ ~ShortAssignment(Keys)
    BY <1>5 DEF ParseStatement, IsStatement, Undefined
  <2> QED
    BY <1>5, <2>1, ReadsStatement DEF ParseStatement, AddStatement
<1>6. CASE ReportStatement
  <2>1. Reading /\ Return(1) /\ Malformed(Keys) /\ Text(ln)
    BY <1>6, LineRead DEF ReportStatement, StatementLine
  <2> QED
    BY <2>1, Refuses DEF Offends, Keys
<1>7. CASE ReadPastOperation
  <2>1. StatementLine /\ ShortOperation(Keys) /\ NextLine /\ UNCHANGED function_parse
    BY <1>7 DEF ReadPastOperation, AddStatement
  <2>2. ~Malformed(Keys) /\ ~ShortAssignment(Keys)
    BY <2>1 DEF Malformed, ShortAssignment, ShortOperation
  <2> QED
    BY <2>1, <2>2, ReadsStatement
<1>8. CASE ReadPastAssignment
  <2>1. Reading /\ Return(1) /\ ShortAssignment(Keys) /\ Text(ln)
    BY <1>8, LineRead DEF ReadPastAssignment, StatementLine
  <2> QED
    BY <2>1, Refuses DEF Offends, Keys
<1>9. CASE Crash
  BY <1>9 DEF Crash, StatementLine, Reading, ErrorIsFirstOffence, Parsed, passes, text, graph, issue, cursor, regs, result
<1>10. CASE EndOfFile
  <2>1. where = "parse" /\ ln > Len(file) /\ where' = "returned" /\ parse_error' = 0
        /\ UNCHANGED <<file, ln>>
    BY <1>10 DEF EndOfFile, Return
  <2>2. ln = Len(file) + 1 /\ \A i \in 1..Len(file) : ~Offends(i)
    BY <2>1 DEF ReadSoFar, Lines0
  <2>3. (ln > Len(file) /\ \A i \in 1..Len(file) : ~Offends(i))'
    BY <2>1, <2>2, SameFile
  <2> QED
    BY <2>1, <2>3 DEF ErrorIsFirstOffence, Parsed, passes, text, graph, issue, cursor, regs, result
<1>11. CASE Stopped
  <2>1. UNCHANGED <<file, ln, where, parse_error, pc, b, design>> /\ where # "parse"
    BY <1>11 DEF Stopped, parserVars, passes, text, graph, issue, cursor, regs, result
  <2>2. ErrorIsFirstOffence'
    BY <2>1, SameFile DEF ErrorIsFirstOffence, Offends, BadlyDefined, Defines, Text
  <2> QED
    BY <2>1, <2>2 DEF Parsed
<1> QED
  BY <1>1, <1>2, <1>3, <1>4, <1>5, <1>6, <1>7, <1>8, <1>9, <1>10, <1>11 DEF ParserNext

\* The passes leave the parser alone, and start behind a parse that answered 0.
LEMMA PassesKeep == RunInv /\ (Schedule \/ WriteTop) => RunInv'
<1> SUFFICES ASSUME RunInv, Parsed, UNCHANGED parserVars
             PROVE  RunInv'
  BY DEF Schedule, WriteTop
<1>1. UNCHANGED <<file, ln, where, parse_error>> /\ where = "returned" /\ parse_error = 0
  BY DEF parserVars, Parsed
<1>2. ErrorIsFirstOffence'
  BY <1>1, SameFile DEF RunInv, ErrorIsFirstOffence
<1> QED
  BY <1>1, <1>2 DEF RunInv, Parsed

-----------------------------------------------------------------------------
(* Theorems.                                                               *)

\* At first no line is read and no pass has started.
LEMMA RunStarts == RunInit => RunInv
<1> SUFFICES ASSUME RunInit
             PROVE  RunInv
  OBVIOUS
<1>1. /\ file \in Lines0 /\ ln = 1 /\ where = "parse"
      /\ function_parse = 0 /\ parse_error = 0
  BY FilesAssumption DEF RunInit, ParserInit, Lines0
<1>2. pc = "enter" /\ b = 1 /\ design = "none"
  BY DEF RunInit, NothingBound, GenerateInit
<1>3. ~BadlyDefined(1)
  BY DEF BadlyDefined, Defines
<1>4. Len(file) \in Nat
  BY <1>1 DEF Lines0
<1> QED
  BY <1>1, <1>2, <1>3, <1>4 DEF RunInv, ReadSoFar, ErrorIsFirstOffence

LEMMA RunKeeps == RunInv /\ [RunNext]_runVars => RunInv'
<1> SUFFICES ASSUME RunInv, UNCHANGED runVars
             PROVE  RunInv'
  BY ParseKeeps, PassesKeep DEF RunNext
<1>1. UNCHANGED parserVars /\ UNCHANGED <<function_parse, pc, b, design>>
  BY DEF runVars, parserVars, passes, text, graph, issue, cursor, regs, result
<1>2. UNCHANGED <<file, ln, where, parse_error>>
  BY <1>1 DEF parserVars
<1>3. ErrorIsFirstOffence' /\ (where = "parse" => ReadSoFar)'
  BY <1>1, <1>2, SameFile
     DEF RunInv, ErrorIsFirstOffence, ReadSoFar, Offends, BadlyDefined, Defines, Text
<1> QED
  BY <1>1, <1>2, <1>3 DEF RunInv, Parsed

\* For every set of files: parse answers 0 only if no line offends, and
\* otherwise stands at the first that does (parser::parse).
THEOREM ParserStopsAtFirstOffence == RunSpec => []ErrorIsFirstOffence
<1>1. RunInv => ErrorIsFirstOffence
  BY DEF RunInv
<1> QED
  BY <1>1, RunStarts, RunKeeps, PTL DEF RunSpec

\* For every set of files, whatever the passes do: none of them has moved, and
\* top.v is not touched, unless the file was read to its end and no line of it
\* offends (HLSHandler::run).
THEOREM RefusedGoesNoFurther == RunSpec => []NothingFromRefused
<1>1. RunInv => NothingFromRefused
  BY DEF RunInv, NothingFromRefused, ErrorIsFirstOffence, Parsed
<1> QED
  BY <1>1, RunStarts, RunKeeps, PTL DEF RunSpec

-----------------------------------------------------------------------------
(* What a line gives.                                                      *)

\* A line that can be a statement is one, well typed.
LEMMA StatementOfType ==
  ASSUME NEW ks \in Seq(Names), IsStatement(ks)
  PROVE  StatementOf(ks) \in Statement
<1>1. ks # <<>> /\ Len(ks) \in Nat /\ Len(ks) > 0 /\ ks[1] \in Names
  <2>1. ks # <<>>
    BY DEF IsStatement, Undefined, NoKeys
  <2>2. Len(ks) \in Nat /\ Len(ks) > 0
    BY <2>1, EmptySeq, LenProperties
  <2> QED BY <2>1, <2>2, ElementOfSeq
<1>2. Tail(ks) \in Seq(Names)
  BY <1>1, HeadTailProperties
<1>3. \A m \in 2..(Len(ks) + 1), n \in Int : n <= Len(ks) => SubSeq(ks, m, n) \in Seq(Names)
  BY SubSeqProperties
<1>4. CASE ks[1] = "store"
  <2>1. ~IsLabelLine(ks) /\ Len(ks) >= 4
    BY <1>1, <1>4 DEF IsStatement, Undefined, ShortStore
  <2>2. SubSeq(ks, 2, 4) \in Seq(Names)
    BY <1>1, <1>3, <2>1
  <2>3. StatementOf(ks) = Stmt("STORE", NoVar, SubSeq(ks, 2, 4))
    BY <1>4 DEF StatementOf, IsOperation, IsAssignment
  <2> QED BY <2>2, <2>3 DEF Stmt, Statement, NoResult
<1>5. CASE ks[1] = "br"
  <2>1. StatementOf(ks) = Stmt("BR", NoVar, Tail(ks))
    BY <1>5 DEF StatementOf, IsOperation, IsAssignment
  <2> QED BY <1>2, <2>1 DEF Stmt, Statement, NoResult
<1>6. CASE ks[1] = "return"
  <2>1. StatementOf(ks) = Stmt("RET", NoVar, Tail(ks))
    BY <1>6 DEF StatementOf, IsOperation, IsAssignment
  <2> QED BY <1>2, <2>1 DEF Stmt, Statement, NoResult
<1>7. CASE ks[1] \notin {"store", "br", "return"}
  <2>1. IsAssignment(ks)
    BY <1>1, <1>7 DEF IsStatement, IsAssignment
  <2>2. Len(ks) >= 3
    BY <1>1, <2>1 DEF IsStatement, Undefined, ShortAssignment
  <2>3. ks[3] \in Names
    BY <2>2, ElementOfSeq
  <2>4. CASE ks[3] \in {"phi", "load"}
    <3>1. SubSeq(ks, 4, Len(ks)) \in Seq(Names)
      BY <1>1, <1>3, <2>2
    <3>2. StatementOf(ks) = Stmt(IF ks[3] = "phi" THEN "PHI" ELSE "LOAD", ks[1], SubSeq(ks, 4, Len(ks)))
      BY <1>7, <2>1, <2>4 DEF StatementOf, IsOperation
    <3> QED BY <1>1, <3>1, <3>2 DEF Stmt, Statement, NoResult, OpTypes
  <2>5. CASE ks[3] \notin {"phi", "load"} /\ Len(ks) = 3
    <3>1. StatementOf(ks) = Stmt("ASSIGN", ks[1], <<ks[3]>>)
      BY <1>7, <2>1, <2>5 DEF StatementOf, IsOperation
    <3>2. <<ks[3]>> \in Seq(Names)
      BY <2>3
    <3> QED BY <1>1, <3>1, <3>2 DEF Stmt, Statement, NoResult, OpTypes
  <2>6. CASE ks[3] \notin {"phi", "load"} /\ Len(ks) # 3
    <3>1. Len(ks) > 3
      <4> DEFINE L == Len(ks)
      <4>1. L \in Nat /\ L >= 3 /\ L # 3
        BY <1>1, <2>2, <2>6
      <4> HIDE DEF L
      <4>2. L > 3
        BY <4>1
      <4> QED BY <4>2 DEF L
    <3>2. IsOperation(ks)
      BY <2>1, <2>6, <3>1 DEF IsOperation
    <3>3. ks[4] \in DOMAIN Operators
      BY <3>2 DEF IsStatement, Malformed
    <3>4. Len(ks) # 4
      BY <3>2, <3>3 DEF IsStatement, Undefined, ShortOperation
    <3>5. ks[4] \in Names /\ ks[5] \in Names
      <4>1. Len(ks) >= 5
        <5> DEFINE L == Len(ks)
        <5>1. L \in Nat /\ L > 3 /\ L # 4
          BY <1>1, <3>1, <3>4
        <5> HIDE DEF L
        <5>2. L >= 5
          BY <5>1
        <5> QED BY <5>2 DEF L
      <4> QED BY <4>1, ElementOfSeq
    <3>6. StatementOf(ks) = Stmt(Operators[ks[4]], ks[1], <<ks[3], ks[5]>>)
      BY <1>7, <2>1, <2>6, <3>2 DEF StatementOf
    <3>7. Operators[ks[4]] \in OpTypes \ NoResult
      BY <3>3 DEF Operators, OpTypes, NoResult
    <3>8. <<ks[3], ks[5]>> \in Seq(Names)
      BY <2>3, <3>5
    <3> QED BY <1>1, <3>6, <3>7, <3>8 DEF Stmt, Statement
  <2> QED BY <2>4, <2>5, <2>6
<1> QED BY <1>4, <1>5, <1>6, <1>7

\* The elements of a finite set of numbers can be counted from below.
LEMMA Counted ==
  ASSUME NEW A \in SUBSET Nat, IsFiniteSet(A), NEW p \in 1..Cardinality(A)
  PROVE  \E c \in A : Cardinality({d \in A : d <= c}) = p
<1> DEFINE T == 1..Cardinality(A)
<1> DEFINE upto(c) == {d \in A : d <= c}
<1> DEFINE f == [c \in A |-> Cardinality(upto(c))]
<1>1. Cardinality(A) \in Nat
  BY FS_CardinalityType
<1>2. IsFiniteSet(T) /\ Cardinality(T) = Cardinality(A)
  <2>1. PICK n \in Nat : n = Cardinality(A)
    BY <1>1
  <2>2. IsFiniteSet(1..n) /\ Cardinality(1..n) = n
    BY FS_Interval
  <2> QED BY <2>1, <2>2
<1>3. \A c \in A : /\ IsFiniteSet(upto(c)) /\ Cardinality(upto(c)) \in Nat
                   /\ Cardinality(upto(c)) <= Cardinality(A)
  BY FS_Subset, FS_CardinalityType
<1>4. \A c \in A : f[c] \in T
  <2> SUFFICES ASSUME NEW c \in A PROVE Cardinality(upto(c)) \in T
    BY Zenon
  <2>1. c \in upto(c)
    OBVIOUS
  <2>2. Cardinality(upto(c)) # 0
    BY <1>3, <2>1, FS_EmptySet
  <2> QED BY <1>1, <1>3, <2>2
<1>5. \A c, e \in A : c < e => f[c] < f[e]
  <2> TAKE c \in A, e \in A
  <2> HAVE c < e
  <2>1. upto(c) \subseteq upto(e) /\ e \in upto(e) /\ e \notin upto(c)
    <3>1. c \in Nat /\ e \in Nat /\ \A d \in A : d \in Nat
      OBVIOUS
    <3>2. \A d \in A : d <= c => d <= e
      BY <3>1
    <3>3. e <= e /\ ~(e <= c)
      BY <3>1
    <3> QED BY <3>2, <3>3
  <2>2. upto(c) # upto(e)
    BY <2>1
  <2> HIDE DEF upto
  <2>3. Cardinality(upto(c)) <= Cardinality(upto(e)) /\ Cardinality(upto(c)) # Cardinality(upto(e))
    BY <1>3, <2>1, <2>2, FS_Subset
  <2>4. Cardinality(upto(c)) < Cardinality(upto(e))
    BY <1>3, <2>3
  <2>5. f[c] = Cardinality(upto(c)) /\ f[e] = Cardinality(upto(e))
    OBVIOUS
  <2> QED BY <2>4, <2>5
<1>6. f \in Injection(A, T)
  <2>1. f \in [A -> T]
    BY <1>4
  <2>2. \A c, e \in A : f[c] = f[e] => c = e
    <3>1. \A c \in A : f[c] \in Nat
      BY <1>3
    <3> HIDE DEF f
    <3> QED BY <1>5, <3>1
  <2> HIDE DEF f, T
  <2> QED BY <2>1, <2>2 DEF Injection, IsInjective
<1>7. f \in Surjection(A, T)
  <2> HIDE DEF f, T
  <2> QED BY <1>2, <1>6, FS_Injection
<1>8. \E c \in A : f[c] = p
  <2>1. p \in T
    OBVIOUS
  <2> HIDE DEF f, T
  <2> QED BY <1>7, <2>1 DEF Surjection
<1> QED BY <1>8

LEMMA NewParamsType ==
  ASSUME NEW ks \in Seq(Names)
  PROVE  NewParams(ks) \in Seq([name: Names, array: BOOLEAN])
<1> DEFINE P == Parameters(ks)
<1> DEFINE nth(p) == CHOOSE c \in P : Cardinality({d \in P : d <= c}) = p
<1>1. P \subseteq 4..Len(ks) /\ P \subseteq 1..Len(ks) /\ P \subseteq Nat /\ IsFiniteSet(P)
  <2>1. P \subseteq 4..Len(ks) /\ P \subseteq 1..Len(ks) /\ P \subseteq Nat
    BY DEF Parameters
  <2>2. IsFiniteSet(4..Len(ks))
    BY FS_Interval
  <2> QED BY <2>1, <2>2, FS_Subset
<1>2. Cardinality(P) \in Nat
  BY <1>1, FS_CardinalityType
<1>3. ASSUME NEW p \in 1..Cardinality(P) PROVE nth(p) \in P
  <2> HIDE DEF P
  <2>1. \E c \in P : Cardinality({d \in P : d <= c}) = p
    BY <1>1, Counted
  <2> QED BY <2>1, Zenon
<1>4. ASSUME NEW p \in 1..Cardinality(P) PROVE Param(ks[nth(p)]) \in [name: Names, array: BOOLEAN]
  <2>1. ks[nth(p)] \in Names
    <3> HIDE DEF nth, P
    <3> QED BY <1>1, <1>3, ElementOfSeq
  <2> HIDE DEF nth
  <2> QED BY <2>1, KeysAssumption DEF Param
<1>5. NewParams(ks) = [p \in 1..Cardinality(P) |-> Param(ks[nth(p)])]
  BY DEF NewParams
<1> DEFINE F == NewParams(ks)
<1> DEFINE X == [name: Names, array: BOOLEAN]
<1> DEFINE m == Cardinality(P)
<1>6. F \in [1..m -> X]
  <2> HIDE DEF nth, P
  <2> QED BY <1>4, <1>5
<1>7. F \in Seq(X)
  <2> HIDE DEF F, X, P
  <2>1. m \in Nat
    BY <1>2
  <2> HIDE DEF m
  <2> QED BY <1>6, <2>1
<1> QED BY <1>7

-----------------------------------------------------------------------------
(* Blocks.                                                                 *)

\* BlocksDenoteFile of a file f before its line n, and blocks p.
TextIn(f, i) == ~f[i].blank /\ ~(Len(f[i].keys) > 0 /\ f[i].keys[1] = "define")
LabelsTo(f, n) == {i \in 1..(n - 1) : TextIn(f, i) /\ IsLabelLine(f[i].keys)}
StatementsTo(f, n) == {i \in 1..(n - 1) : TextIn(f, i) /\ ~IsLabelLine(f[i].keys)}
BlockAt(f, n, i) == 1 + Cardinality({j \in LabelsTo(f, n) : j <= i})
InBlock(f, n, l) == {i \in StatementsTo(f, n) : BlockAt(f, n, i) = l}
PlaceAt(f, n, i) ==
    Cardinality({j \in StatementsTo(f, n) : j <= i /\ BlockAt(f, n, j) = BlockAt(f, n, i)})

Denotes(f, n, p) ==
    /\ Len(p) = 1 + Cardinality(LabelsTo(f, n))
    /\ p[1].label = "0"
    /\ \A i \in LabelsTo(f, n) : p[BlockAt(f, n, i)].label = LabelOf[f[i].keys[1]]
    /\ \A l \in 1..Len(p) : Len(p[l].statements) = Cardinality(InBlock(f, n, l))
    /\ \A i \in StatementsTo(f, n) : ~Undefined(f[i].keys) =>
         p[BlockAt(f, n, i)].statements[PlaceAt(f, n, i)] = StatementOf(f[i].keys)

ParsedBlocks == IF where = "returned" THEN blocks ELSE Append(blocks, bb)

LEMMA DenotesMeans == BlocksDenoteFile <=> Denotes(file, ln, ParsedBlocks)
<1>1. \A i : Text(i) <=> TextIn(file, i)
  BY DEF Text, TextIn
<1>2. LabelLines = LabelsTo(file, ln) /\ StatementLines = StatementsTo(file, ln)
  BY <1>1 DEF LabelLines, LabelsTo, StatementLines, StatementsTo
<1>3. \A i : BlockOf(i) = BlockAt(file, ln, i)
  BY <1>2 DEF BlockOf, BlockAt
<1>4. \A l : {i \in StatementLines : BlockOf(i) = l} = InBlock(file, ln, l)
  BY <1>2, <1>3 DEF InBlock
<1>5. \A i : PlaceOf(i) = PlaceAt(file, ln, i)
  BY <1>2, <1>3 DEF PlaceOf, PlaceAt
<1> QED
  BY <1>2, <1>3, <1>4, <1>5, Zenon DEF BlocksDenoteFile, Denotes, ParsedBlocks

LEMMA DenotesMeansNext == BlocksDenoteFile' <=> Denotes(file, ln, ParsedBlocks)'
BY DenotesMeans, PTL

\* Lines before n: finitely many, in blocks that have been opened, at places
\* that the block has.
LEMMA PlacesExist ==
  ASSUME NEW f, NEW n \in Nat \ {0}
  PROVE  /\ IsFiniteSet(LabelsTo(f, n)) /\ IsFiniteSet(StatementsTo(f, n))
         /\ Cardinality(LabelsTo(f, n)) \in Nat
         /\ \A l : IsFiniteSet(InBlock(f, n, l)) /\ Cardinality(InBlock(f, n, l)) \in Nat
         /\ \A i \in Nat : BlockAt(f, n, i) \in 1..(1 + Cardinality(LabelsTo(f, n)))
         /\ \A i \in StatementsTo(f, n) :
              PlaceAt(f, n, i) \in 1..Cardinality(InBlock(f, n, BlockAt(f, n, i)))
<1>1. /\ IsFiniteSet(LabelsTo(f, n)) /\ IsFiniteSet(StatementsTo(f, n))
      /\ Cardinality(LabelsTo(f, n)) \in Nat
  <2>1. IsFiniteSet(1..(n - 1))
    BY FS_Interval
  <2>2. LabelsTo(f, n) \subseteq 1..(n - 1) /\ StatementsTo(f, n) \subseteq 1..(n - 1)
    BY DEF LabelsTo, StatementsTo
  <2> QED BY <2>1, <2>2, FS_Subset, FS_CardinalityType
<1>2. \A l : IsFiniteSet(InBlock(f, n, l)) /\ Cardinality(InBlock(f, n, l)) \in Nat
  <2>1. \A l : InBlock(f, n, l) \subseteq StatementsTo(f, n)
    BY DEF InBlock
  <2> QED BY <1>1, <2>1, FS_Subset, FS_CardinalityType
<1>3. ASSUME NEW i \in Nat
      PROVE  BlockAt(f, n, i) \in 1..(1 + Cardinality(LabelsTo(f, n)))
  <2> DEFINE B == {j \in LabelsTo(f, n) : j <= i}
  <2>1. B \subseteq LabelsTo(f, n)
    OBVIOUS
  <2> HIDE DEF B
  <2>2. Cardinality(B) \in Nat /\ Cardinality(B) <= Cardinality(LabelsTo(f, n))
    BY <1>1, <2>1, FS_Subset, FS_CardinalityType
  <2>3. BlockAt(f, n, i) = 1 + Cardinality(B)
    BY DEF BlockAt, B
  <2> QED BY <1>1, <2>2, <2>3
<1>4. ASSUME NEW i \in StatementsTo(f, n)
      PROVE  PlaceAt(f, n, i) \in 1..Cardinality(InBlock(f, n, BlockAt(f, n, i)))
  <2> DEFINE B == {j \in StatementsTo(f, n) : j <= i /\ BlockAt(f, n, j) = BlockAt(f, n, i)}
  <2> DEFINE C == InBlock(f, n, BlockAt(f, n, i))
  <2>1. i \in B /\ B \subseteq C
    <3>1. i \in Nat
      BY DEF StatementsTo
    <3> QED BY <3>1 DEF InBlock
  <2>2. PlaceAt(f, n, i) = Cardinality(B)
    BY DEF PlaceAt
  <2> HIDE DEF B, C
  <2>3. IsFiniteSet(C) /\ IsFiniteSet(B) /\ Cardinality(B) <= Cardinality(C)
    BY <1>2, <2>1, FS_Subset DEF C
  <2>4. Cardinality(B) \in Nat /\ Cardinality(C) \in Nat /\ Cardinality(B) # 0
    BY <2>1, <2>3, FS_CardinalityType, FS_EmptySet
  <2>5. Cardinality(B) \in 1..Cardinality(C)
    BY <2>3, <2>4
  <2> QED BY <2>2, <2>5 DEF C
<1> QED BY <1>1, <1>2, <1>3, <1>4

\* Reading line n leaves the blocks and places of the lines before it.
LEMMA EarlierStay ==
  ASSUME NEW f, NEW n \in Nat \ {0}
  PROVE  /\ \A i \in 1..(n - 1) : BlockAt(f, n + 1, i) = BlockAt(f, n, i)
         /\ \A i \in StatementsTo(f, n) : PlaceAt(f, n + 1, i) = PlaceAt(f, n, i)
         /\ LabelsTo(f, n + 1) = LabelsTo(f, n) \cup
              (IF TextIn(f, n) /\ IsLabelLine(f[n].keys) THEN {n} ELSE {})
         /\ StatementsTo(f, n + 1) = StatementsTo(f, n) \cup
              (IF TextIn(f, n) /\ ~IsLabelLine(f[n].keys) THEN {n} ELSE {})
<1>1. 1..((n + 1) - 1) = (1..(n - 1)) \cup {n} /\ n \notin 1..(n - 1)
  OBVIOUS
<1>2. LabelsTo(f, n + 1) = LabelsTo(f, n) \cup
        (IF TextIn(f, n) /\ IsLabelLine(f[n].keys) THEN {n} ELSE {})
  BY <1>1 DEF LabelsTo
<1>3. StatementsTo(f, n + 1) = StatementsTo(f, n) \cup
        (IF TextIn(f, n) /\ ~IsLabelLine(f[n].keys) THEN {n} ELSE {})
  BY <1>1 DEF StatementsTo
<1>4. ASSUME NEW i \in 1..(n - 1) PROVE BlockAt(f, n + 1, i) = BlockAt(f, n, i)
  <2>1. ~(n <= i)
    OBVIOUS
  <2>2. {j \in LabelsTo(f, n + 1) : j <= i} = {j \in LabelsTo(f, n) : j <= i}
    BY <1>2, <2>1
  <2> QED BY <2>2 DEF BlockAt
<1>5. ASSUME NEW i \in StatementsTo(f, n) PROVE PlaceAt(f, n + 1, i) = PlaceAt(f, n, i)
  <2>1. i \in 1..(n - 1) /\ StatementsTo(f, n) \subseteq 1..(n - 1) /\ ~(n <= i)
    BY DEF StatementsTo
  <2>2. {j \in StatementsTo(f, n + 1) : j <= i /\ BlockAt(f, n + 1, j) = BlockAt(f, n + 1, i)}
        = {j \in StatementsTo(f, n) : j <= i /\ BlockAt(f, n, j) = BlockAt(f, n, i)}
    BY <1>3, <1>4, <2>1
  <2> QED BY <2>2 DEF PlaceAt
<1> QED BY <1>2, <1>3, <1>4, <1>5


\* A line that is no part of the blocks.
LEMMA NothingRead ==
  ASSUME NEW f, NEW n \in Nat \ {0}, NEW p, Denotes(f, n, p), ~TextIn(f, n)
  PROVE  Denotes(f, n + 1, p)
<1>1. LabelsTo(f, n + 1) = LabelsTo(f, n) /\ StatementsTo(f, n + 1) = StatementsTo(f, n)
  <2>1. \A A : A \cup {} = A
    OBVIOUS
  <2> QED BY <2>1, EarlierStay, Zenon
<1>2. \A i : BlockAt(f, n + 1, i) = BlockAt(f, n, i)
  BY <1>1 DEF BlockAt
<1>3. \A l : InBlock(f, n + 1, l) = InBlock(f, n, l)
  BY <1>1, <1>2 DEF InBlock
<1>4. \A i : PlaceAt(f, n + 1, i) = PlaceAt(f, n, i)
  BY <1>1, <1>2 DEF PlaceAt
<1> QED
  BY <1>1, <1>2, <1>3, <1>4, Zenon DEF Denotes

\* A label opens a block without statements.
LEMMA LabelRead ==
  ASSUME NEW f, NEW n \in Nat \ {0}, NEW p \in Seq(BasicBlock), Denotes(f, n, p),
         TextIn(f, n), IsLabelLine(f[n].keys), NEW name \in Names, name = LabelOf[f[n].keys[1]]
  PROVE  Denotes(f, n + 1, Append(p, [label |-> name, statements |-> <<>>]))
<1> DEFINE m == Cardinality(LabelsTo(f, n))
<1> DEFINE c == [label |-> name, statements |-> <<>>]
<1> DEFINE w == Append(p, c)
<1>1. /\ LabelsTo(f, n + 1) = LabelsTo(f, n) \cup {n}
      /\ StatementsTo(f, n + 1) = StatementsTo(f, n)
      /\ \A i \in 1..(n - 1) : BlockAt(f, n + 1, i) = BlockAt(f, n, i)
      /\ \A i \in StatementsTo(f, n) : PlaceAt(f, n + 1, i) = PlaceAt(f, n, i)
  BY EarlierStay
<1>2. /\ LabelsTo(f, n) \subseteq 1..(n - 1) /\ StatementsTo(f, n) \subseteq 1..(n - 1)
      /\ n \notin 1..(n - 1) /\ IsFiniteSet(LabelsTo(f, n)) /\ m \in Nat
  <2>1. LabelsTo(f, n) \subseteq 1..(n - 1) /\ StatementsTo(f, n) \subseteq 1..(n - 1)
    BY DEF LabelsTo, StatementsTo
  <2>2. n \notin 1..(n - 1)
    OBVIOUS
  <2> QED BY <2>1, <2>2, PlacesExist, Zenon
<1>3. Cardinality(LabelsTo(f, n + 1)) = m + 1
  <2>1. n \notin LabelsTo(f, n)
    BY <1>2
  <2> QED BY <1>1, <1>2, <2>1, FS_AddElement
<1>4. BlockAt(f, n + 1, n) = m + 2
  <2>1. {j \in LabelsTo(f, n + 1) : j <= n} = LabelsTo(f, n + 1)
    BY <1>1, <1>2
  <2>2. BlockAt(f, n + 1, n) = 1 + Cardinality(LabelsTo(f, n + 1))
    BY <2>1 DEF BlockAt
  <2> HIDE DEF m
  <2> QED BY <1>2, <1>3, <2>2
<1>5. Len(p) = m + 1 /\ Len(w) = m + 2 /\ w[m + 2] = c /\ \A l \in 1..(m + 1) : w[l] = p[l]
  <2>1. Len(p) = 1 + m
    BY DEF Denotes
  <2> HIDE DEF m, c
  <2> QED BY <1>2, <2>1
<1>6. \A i \in 1..(n - 1) : BlockAt(f, n, i) \in 1..(m + 1)
  <2>1. \A i \in 1..(n - 1) : BlockAt(f, n, i) \in 1..(1 + m)
    BY PlacesExist
  <2>2. m + 1 = 1 + m
    BY <1>2
  <2> QED BY <2>1, <2>2
<1>7. \A l : InBlock(f, n + 1, l) = InBlock(f, n, l)
  BY <1>1, <1>2 DEF InBlock
<1>8. InBlock(f, n + 1, m + 2) = {}
  <2>1. \A i \in StatementsTo(f, n) : BlockAt(f, n, i) # m + 2
    BY <1>2, <1>6
  <2> QED BY <1>7, <2>1 DEF InBlock
<1>9. c.label = name /\ c.statements = <<>>
  OBVIOUS
<1> HIDE DEF c, w, m
<1>10. w[1].label = "0"
  BY <1>2, <1>5 DEF Denotes
<1>11. \A i \in LabelsTo(f, n + 1) : w[BlockAt(f, n + 1, i)].label = LabelOf[f[i].keys[1]]
  <2>1. w[BlockAt(f, n + 1, n)].label = LabelOf[f[n].keys[1]]
    BY <1>4, <1>5, <1>9
  <2>2. ASSUME NEW i \in LabelsTo(f, n)
        PROVE  w[BlockAt(f, n + 1, i)].label = LabelOf[f[i].keys[1]]
    BY <1>1, <1>2, <1>5, <1>6 DEF Denotes
  <2> QED BY <1>1, <2>1, <2>2
<1>12. \A l \in 1..Len(w) : Len(w[l].statements) = Cardinality(InBlock(f, n + 1, l))
  <2>1. Len(w[m + 2].statements) = Cardinality(InBlock(f, n + 1, m + 2))
    BY <1>5, <1>8, <1>9, FS_EmptySet
  <2>2. \A l \in 1..(m + 1) : Len(w[l].statements) = Cardinality(InBlock(f, n + 1, l))
    BY <1>5, <1>7 DEF Denotes
  <2>3. \A l \in 1..Len(w) : l \in 1..(m + 1) \/ l = m + 2
    BY <1>2, <1>5
  <2> QED BY <2>1, <2>2, <2>3
<1>13. \A i \in StatementsTo(f, n + 1) : ~Undefined(f[i].keys) =>
         w[BlockAt(f, n + 1, i)].statements[PlaceAt(f, n + 1, i)] = StatementOf(f[i].keys)
  BY <1>1, <1>2, <1>5, <1>6 DEF Denotes
<1>14. Len(w) = 1 + Cardinality(LabelsTo(f, n + 1))
  BY <1>2, <1>3, <1>5
<1>15. Denotes(f, n + 1, w)
  BY <1>10, <1>11, <1>12, <1>13, <1>14 DEF Denotes
<1> QED BY <1>15 DEF w, c

\* A statement is the next of the block that is open, which is the last.
LEMMA StatementRead ==
  ASSUME NEW f, NEW n \in Nat \ {0}, NEW p \in Seq(BasicBlock), NEW c \in BasicBlock,
         NEW s \in Statement, Denotes(f, n, Append(p, c)), TextIn(f, n), ~IsLabelLine(f[n].keys),
         ~Undefined(f[n].keys) => s = StatementOf(f[n].keys)
  PROVE  Denotes(f, n + 1, Append(p, [c EXCEPT !.statements = Append(@, s)]))
<1> DEFINE m == Cardinality(LabelsTo(f, n))
<1> DEFINE d == [c EXCEPT !.statements = Append(@, s)]
<1> DEFINE v == Append(p, c)
<1> DEFINE w == Append(p, d)
<1> DEFINE h == Len(c.statements)
<1>1. /\ LabelsTo(f, n + 1) = LabelsTo(f, n)
      /\ StatementsTo(f, n + 1) = StatementsTo(f, n) \cup {n}
      /\ \A i \in 1..(n - 1) : BlockAt(f, n + 1, i) = BlockAt(f, n, i)
      /\ \A i \in StatementsTo(f, n) : PlaceAt(f, n + 1, i) = PlaceAt(f, n, i)
  BY EarlierStay
<1>2. /\ LabelsTo(f, n) \subseteq 1..(n - 1) /\ StatementsTo(f, n) \subseteq 1..(n - 1)
      /\ n \notin 1..(n - 1) /\ m \in Nat
  <2>1. LabelsTo(f, n) \subseteq 1..(n - 1) /\ StatementsTo(f, n) \subseteq 1..(n - 1)
    BY DEF LabelsTo, StatementsTo
  <2>2. n \notin 1..(n - 1)
    OBVIOUS
  <2> QED BY <2>1, <2>2, PlacesExist, Zenon
<1>3. BlockAt(f, n + 1, n) = m + 1
  <2>1. {j \in LabelsTo(f, n + 1) : j <= n} = LabelsTo(f, n)
    BY <1>1, <1>2
  <2>2. BlockAt(f, n + 1, n) = 1 + m
    BY <2>1 DEF BlockAt
  <2> HIDE DEF m
  <2> QED BY <1>2, <2>2
<1>4. /\ c.statements \in Seq(Statement) /\ h \in Nat
      /\ d.label = c.label /\ d.statements = Append(c.statements, s)
  <2>1. c.statements \in Seq(Statement)
    BY DEF BasicBlock
  <2>2. d.label = c.label /\ d.statements = Append(c.statements, s)
    BY DEF BasicBlock
  <2> QED BY <2>1, <2>2, LenProperties
<1>5. Len(d.statements) = h + 1 /\ d.statements[h + 1] = s
      /\ \A t \in 1..h : d.statements[t] = c.statements[t]
  <2> DEFINE ss == c.statements
  <2>1. ss \in Seq(Statement) /\ d.statements = Append(ss, s)
    BY <1>4
  <2> HIDE DEF ss, d
  <2>2. Len(Append(ss, s)) = Len(ss) + 1 /\ Append(ss, s)[Len(ss) + 1] = s
        /\ \A t \in 1..Len(ss) : Append(ss, s)[t] = ss[t]
    BY <2>1
  <2> QED BY <2>1, <2>2 DEF ss
<1>6. /\ Len(v) = m + 1 /\ Len(p) = m /\ Len(w) = m + 1 /\ v[m + 1] = c /\ w[m + 1] = d
      /\ \A l \in 1..m : w[l] = v[l]
  <2>1. Len(v) = 1 + m
    BY DEF Denotes
  <2> HIDE DEF m, d
  <2>2. Len(p) = m
    BY <1>2, <2>1
  <2> QED BY <1>2, <2>2
<1>7. \A i \in 1..(n - 1) : BlockAt(f, n, i) \in 1..(m + 1)
  <2>1. \A i \in 1..(n - 1) : BlockAt(f, n, i) \in 1..(1 + m)
    BY PlacesExist
  <2>2. m + 1 = 1 + m
    BY <1>2
  <2> QED BY <2>1, <2>2
<1>8. \A l \in 1..m : InBlock(f, n + 1, l) = InBlock(f, n, l)
  <2> TAKE l \in 1..m
  <2>1. l # m + 1
    BY <1>2
  <2> HIDE DEF m
  <2> QED BY <1>1, <1>2, <1>3, <2>1 DEF InBlock
<1>9. InBlock(f, n + 1, m + 1) = InBlock(f, n, m + 1) \cup {n} /\ n \notin InBlock(f, n, m + 1)
  <2> HIDE DEF m
  <2> QED BY <1>1, <1>2, <1>3 DEF InBlock
<1>10. Cardinality(InBlock(f, n, m + 1)) = h /\ IsFiniteSet(InBlock(f, n, m + 1))
  <2>1. m + 1 \in 1..Len(v)
    BY <1>2, <1>6
  <2> HIDE DEF m, v
  <2>2. Len(v[m + 1].statements) = Cardinality(InBlock(f, n, m + 1))
    BY <2>1 DEF Denotes, v
  <2> QED BY <1>6, <2>2, PlacesExist DEF v
<1>11. Cardinality(InBlock(f, n + 1, m + 1)) = h + 1
  BY <1>9, <1>10, FS_AddElement
<1>12. PlaceAt(f, n + 1, n) = h + 1
  <2>1. {j \in StatementsTo(f, n + 1) : j <= n /\ BlockAt(f, n + 1, j) = BlockAt(f, n + 1, n)}
        = InBlock(f, n + 1, m + 1)
    <3>1. \A j \in StatementsTo(f, n + 1) : j <= n
      BY <1>1, <1>2
    <3> HIDE DEF m
    <3> QED BY <1>3, <3>1 DEF InBlock
  <2> QED BY <1>11, <2>1 DEF PlaceAt
<1> HIDE DEF d, v, w, m, h
<1>13. Denotes(f, n, v)
  BY DEF v
<1>14. w[1].label = "0"
  <2>1. CASE m = 0
    BY <1>4, <1>6, <1>13, <2>1 DEF Denotes
  <2>2. CASE m # 0
    BY <1>2, <1>6, <1>13, <2>2 DEF Denotes
  <2> QED BY <2>1, <2>2
<1>15. \A l \in 1..(m + 1) : w[l].label = v[l].label
  BY <1>2, <1>4, <1>6
<1>16. \A i \in LabelsTo(f, n + 1) : w[BlockAt(f, n + 1, i)].label = LabelOf[f[i].keys[1]]
  BY <1>1, <1>2, <1>7, <1>13, <1>15 DEF Denotes
<1>17. \A l \in 1..Len(w) : Len(w[l].statements) = Cardinality(InBlock(f, n + 1, l))
  <2>1. \A l \in 1..m : Len(w[l].statements) = Cardinality(InBlock(f, n + 1, l))
    BY <1>2, <1>6, <1>8, <1>13 DEF Denotes
  <2>2. \A l \in 1..Len(w) : l \in 1..m \/ l = m + 1
    BY <1>2, <1>6
  <2> QED BY <1>5, <1>6, <1>11, <2>1, <2>2
<1>18. ASSUME NEW i \in StatementsTo(f, n), ~Undefined(f[i].keys)
       PROVE  w[BlockAt(f, n + 1, i)].statements[PlaceAt(f, n + 1, i)] = StatementOf(f[i].keys)
  <2>1. v[BlockAt(f, n, i)].statements[PlaceAt(f, n, i)] = StatementOf(f[i].keys)
    BY <1>13, <1>18 DEF Denotes
  <2>2. BlockAt(f, n + 1, i) = BlockAt(f, n, i) /\ PlaceAt(f, n + 1, i) = PlaceAt(f, n, i)
        /\ BlockAt(f, n, i) \in 1..(m + 1)
    BY <1>1, <1>2, <1>7
  <2>3. CASE BlockAt(f, n, i) = m + 1
    <3>1. PlaceAt(f, n, i) \in 1..h
      BY <1>10, <2>3, PlacesExist
    <3> QED BY <1>5, <1>6, <2>1, <2>2, <2>3, <3>1
  <2>4. CASE BlockAt(f, n, i) # m + 1
    <3>1. BlockAt(f, n, i) \in 1..m
      BY <1>2, <2>2, <2>4
    <3> QED BY <1>6, <2>1, <2>2, <3>1
  <2> QED BY <2>3, <2>4
<1>19. \A i \in StatementsTo(f, n + 1) : ~Undefined(f[i].keys) =>
         w[BlockAt(f, n + 1, i)].statements[PlaceAt(f, n + 1, i)] = StatementOf(f[i].keys)
  <2>1. w[BlockAt(f, n + 1, n)].statements[PlaceAt(f, n + 1, n)] = s
    BY <1>3, <1>5, <1>6, <1>12
  <2> QED BY <1>1, <1>18, <2>1
<1>20. Len(w) = 1 + Cardinality(LabelsTo(f, n + 1))
  BY <1>1, <1>2, <1>6 DEF m
<1>21. Denotes(f, n + 1, w)
  BY <1>14, <1>16, <1>17, <1>19, <1>20 DEF Denotes
<1> QED BY <1>21 DEF w, d

-----------------------------------------------------------------------------
(* The parser's state.                                                     *)

\* The types of the parser and what the blocks denote, which is inductive.
DenoteInv == ParserTypeOK /\ BlocksDenoteFile

LEMMA DenoteStarts == ParserInit => DenoteInv
<1> SUFFICES ASSUME ParserInit PROVE DenoteInv
  OBVIOUS
<1>1. /\ file \in Files /\ ln = 1 /\ where = "parse" /\ function_parse = 0 /\ parse_error = 0
      /\ bb = [label |-> "0", statements |-> <<>>] /\ blocks = <<>>
      /\ signature \in [ret: {"INT", "VOID"}, name: {NoVar}, params: {<<>>}]
  BY DEF ParserInit
<1>2. bb \in BasicBlock /\ bb.label = "0" /\ bb.statements = <<>>
  BY <1>1, KeysAssumption DEF BasicBlock
<1>3. Len(file) \in Nat
  BY <1>1, FilesAssumption
<1>4. ParserTypeOK
  <2>1. /\ signature.ret \in {"INT", "VOID"} /\ signature.name \in Names \cup {NoVar}
        /\ signature.params = <<>>
    BY <1>1
  <2>2. signature.params \in Seq([name: Names, array: BOOLEAN]) /\ blocks \in Seq(BasicBlock)
    BY <1>1, <2>1
  <2> QED BY <1>1, <1>2, <1>3, <2>1, <2>2 DEF ParserTypeOK
<1>5. LabelsTo(file, 1) = {} /\ StatementsTo(file, 1) = {}
  BY DEF LabelsTo, StatementsTo
<1>6. \A l : InBlock(file, 1, l) = {}
  BY <1>5 DEF InBlock
<1>7. Denotes(file, 1, <<bb>>)
  <2>1. Len(<<bb>>) = 1 + Cardinality(LabelsTo(file, 1))
    BY <1>5, FS_EmptySet
  <2>2. <<bb>>[1] = bb /\ \A l \in 1..Len(<<bb>>) : l = 1
    OBVIOUS
  <2>3. \A l : Cardinality(InBlock(file, 1, l)) = 0
    BY <1>6, FS_EmptySet
  <2>4. \A l \in 1..Len(<<bb>>) : Len(<<bb>>[l].statements) = Cardinality(InBlock(file, 1, l))
    BY <1>2, <2>2, <2>3
  <2> QED BY <1>2, <1>5, <2>1, <2>2, <2>4 DEF Denotes
<1>8. ParsedBlocks = <<bb>>
  BY <1>1 DEF ParsedBlocks
<1> QED BY <1>1, <1>4, <1>7, <1>8, DenotesMeans DEF DenoteInv

\* What the next line is, in a state of the parser.
LEMMA NextIs ==
  ASSUME DenoteInv, Reading
  PROVE  /\ file \in Seq(TextLine \cup {BlankLine}) /\ ln \in Nat \ {0} /\ ln <= Len(file)
         /\ ln + 1 \in 1..(Len(file) + 1)
         /\ Keys \in Seq(Names) /\ Keys = file[ln].keys /\ where = "parse"
         /\ ~file[ln].blank => (TextIn(file, ln) <=> ~IsDefine)
         /\ Denotes(file, ln, Append(blocks, bb))
<1>1. /\ file \in Lines0 /\ ln \in Nat \ {0} /\ ln <= Len(file) /\ Len(file) \in Nat
      /\ where = "parse"
  <2>1. file \in Lines0
    BY FilesAssumption DEF DenoteInv, ParserTypeOK, Lines0
  <2>2. Len(file) \in Nat
    BY <2>1 DEF Lines0
  <2>3. ln \in 1..(Len(file) + 1) /\ where = "parse" /\ ln <= Len(file)
    BY DEF DenoteInv, ParserTypeOK, Reading
  <2> QED BY <2>1, <2>2, <2>3
<1>2. ln + 1 \in 1..(Len(file) + 1)
  BY <1>1
<1>3. Keys \in Seq(Names) /\ (~file[ln].blank => (Text(ln) <=> ~IsDefine))
  BY <1>1, LineRead
<1>4. Text(ln) <=> TextIn(file, ln)
  BY DEF Text, TextIn
<1>5. ParsedBlocks = Append(blocks, bb)
  BY <1>1 DEF ParsedBlocks
<1> QED BY <1>1, <1>2, <1>3, <1>4, <1>5, DenotesMeans DEF DenoteInv, Keys, Lines0

\* parse returns: the block being filled joins the others.
LEMMA ReturnKeeps ==
  ASSUME DenoteInv, where = "parse", NEW e \in {0, 1}, Return(e)
  PROVE  DenoteInv'
<1>1. /\ where' = "returned" /\ parse_error' = e /\ blocks' = Append(blocks, bb)
      /\ UNCHANGED <<file, ln, function_parse, bb, signature>>
  BY DEF Return
<1>2. ParserTypeOK
  BY DEF DenoteInv
<1>3. blocks' \in Seq(BasicBlock) /\ blocks' # <<>>
  BY <1>1, <1>2 DEF ParserTypeOK
<1>4. ParserTypeOK'
  BY <1>1, <1>2, <1>3 DEF ParserTypeOK
<1>5. ParsedBlocks' = ParsedBlocks
  BY <1>1 DEF ParsedBlocks
<1>6. Denotes(file, ln, ParsedBlocks)
  BY DenotesMeans DEF DenoteInv
<1>7. Denotes(file, ln, ParsedBlocks)'
  BY <1>1, <1>5, <1>6
<1> QED BY <1>4, <1>7, DenotesMeansNext DEF DenoteInv

\* A line is read: what it leaves of the blocks denotes the file up to it.
LEMMA LineKeeps ==
  ASSUME DenoteInv, Reading, NextLine, ParserTypeOK',
         Denotes(file, ln + 1, Append(blocks', bb'))
  PROVE  DenoteInv'
<1>1. ln' = ln + 1 /\ file' = file /\ where' = "parse"
  BY DEF NextLine, Reading
<1>2. ParsedBlocks' = Append(blocks', bb')
  BY <1>1 DEF ParsedBlocks
<1>3. Denotes(file, ln, ParsedBlocks)'
  BY <1>1, <1>2
<1> QED BY <1>3, DenotesMeansNext DEF DenoteInv

\* A statement, the line's own or one of what lies behind its keys.
LEMMA StatementKeeps ==
  ASSUME DenoteInv, StatementLine, ~IsLabelLine(Keys), NEW s \in Statement, AddStatement(s),
         ~Undefined(Keys) => s = StatementOf(Keys)
  PROVE  DenoteInv'
<1>1. Reading /\ ~file[ln].blank /\ ~IsDefine
  BY DEF StatementLine
<1>2. /\ bb' = [bb EXCEPT !.statements = Append(@, s)] /\ NextLine
      /\ UNCHANGED <<file, function_parse, blocks, signature, parse_error, where>> /\ ln' = ln + 1
  BY DEF AddStatement, NextLine
<1>3. bb \in BasicBlock /\ blocks \in Seq(BasicBlock)
  BY DEF DenoteInv, ParserTypeOK
<1>4. bb' \in BasicBlock
  <2>1. bb.statements \in Seq(Statement) /\ bb.label \in Names
    BY <1>3 DEF BasicBlock
  <2>2. Append(bb.statements, s) \in Seq(Statement)
    BY <2>1, AppendProperties
  <2>3. bb' = [label |-> bb.label, statements |-> Append(bb.statements, s)]
    BY <1>2, <1>3 DEF BasicBlock
  <2> QED BY <2>1, <2>2, <2>3 DEF BasicBlock
<1>5. ln' \in 1..(Len(file) + 1) /\ where' = "parse" /\ ln \in Nat \ {0}
  BY <1>1, <1>2, NextIs
<1>6. ParserTypeOK'
  BY <1>2, <1>4, <1>5 DEF DenoteInv, ParserTypeOK
<1>7. Keys = file[ln].keys /\ TextIn(file, ln) /\ Denotes(file, ln, Append(blocks, bb))
  BY <1>1, NextIs
<1>8. Denotes(file, ln + 1, Append(blocks, [bb EXCEPT !.statements = Append(@, s)]))
  BY <1>3, <1>5, <1>7, StatementRead
<1> QED BY <1>1, <1>2, <1>6, <1>8, LineKeeps

LEMMA DenoteStands == DenoteInv /\ UNCHANGED parserVars => DenoteInv'
<1> SUFFICES ASSUME DenoteInv, UNCHANGED parserVars PROVE DenoteInv'
  OBVIOUS
<1>1. UNCHANGED <<file, ln, where, function_parse, parse_error, bb, blocks, signature>>
  BY DEF parserVars
<1>2. ParserTypeOK'
  BY <1>1 DEF DenoteInv, ParserTypeOK
<1>3. ParsedBlocks' = ParsedBlocks /\ Denotes(file, ln, ParsedBlocks)
  BY <1>1, DenotesMeans DEF ParsedBlocks, DenoteInv
<1>4. Denotes(file, ln, ParsedBlocks)'
  BY <1>1, <1>3
<1> QED BY <1>2, <1>4, DenotesMeansNext DEF DenoteInv

\* Each action of the parser.
LEMMA DenoteNext == DenoteInv /\ ParserNext => DenoteInv'
<1> SUFFICES ASSUME DenoteInv, ParserNext PROVE DenoteInv'
  OBVIOUS
<1>0. ParserTypeOK
  BY DEF DenoteInv
<1>1. CASE SkipBlank
  <2>1. /\ Reading /\ file[ln].blank /\ NextLine /\ ln' = ln + 1
        /\ UNCHANGED <<file, where, parse_error, function_parse, bb, blocks, signature>>
    BY <1>1 DEF SkipBlank, NextLine
  <2>2. ln' \in 1..(Len(file) + 1) /\ ln \in Nat \ {0} /\ where = "parse"
        /\ Denotes(file, ln, Append(blocks, bb))
    BY <2>1, NextIs
  <2>3. ParserTypeOK'
    BY <1>0, <2>1, <2>2 DEF ParserTypeOK
  <2>4. ~TextIn(file, ln)
    BY <2>1 DEF TextIn
  <2>5. Denotes(file, ln + 1, Append(blocks, bb))
    BY <2>2, <2>4, NothingRead
  <2> QED BY <2>1, <2>3, <2>5, LineKeeps
<1>2. CASE DefineLine
  <2>1. /\ Reading /\ ~file[ln].blank /\ IsDefine /\ NextLine /\ ln' = ln + 1
        /\ function_parse' \in {0, 1}
        /\ signature' = [ret |-> ReturnType(Tail(Keys)), name |-> FunctionName(Tail(Keys)),
                         params |-> signature.params \o NewParams(Tail(Keys))]
        /\ UNCHANGED <<file, where, parse_error, bb, blocks>>
    BY <1>2 DEF DefineLine, NextLine
  <2>2. /\ ln' \in 1..(Len(file) + 1) /\ ln \in Nat \ {0} /\ where = "parse" /\ ~TextIn(file, ln)
        /\ Keys \in Seq(Names) /\ Keys # <<>> /\ Denotes(file, ln, Append(blocks, bb))
    BY <2>1, NextIs DEF IsDefine
  <2> DEFINE ks == Tail(Keys)
  <2>3. ks \in Seq(Names)
    BY <2>2, HeadTailProperties
  <2>4. signature.ret \in {"INT", "VOID"} /\ signature.name \in Names \cup {NoVar}
        /\ signature.params \in Seq([name: Names, array: BOOLEAN])
    BY <1>0 DEF ParserTypeOK
  <2> HIDE DEF ks
  <2>5. ReturnType(ks) \in {"INT", "VOID"}
    BY <2>4 DEF ReturnType
  <2>6. FunctionName(ks) \in Names \cup {NoVar}
    <3>1. Len(ks) >= 2 => ks[2] \in Names
      BY <2>3, ElementOfSeq
    <3> QED BY <2>4, <3>1 DEF FunctionName
  <2>7. signature.params \o NewParams(ks) \in Seq([name: Names, array: BOOLEAN])
    BY <2>3, <2>4, NewParamsType, ConcatProperties
  <2>8. /\ signature.ret' \in {"INT", "VOID"} /\ signature.name' \in Names \cup {NoVar}
        /\ signature.params' \in Seq([name: Names, array: BOOLEAN])
    BY <2>1, <2>5, <2>6, <2>7 DEF ks
  <2>9. ParserTypeOK'
    BY <1>0, <2>1, <2>2, <2>8 DEF ParserTypeOK
  <2>10. Denotes(file, ln + 1, Append(blocks, bb))
    BY <2>2, NothingRead
  <2> QED BY <2>1, <2>9, <2>10, LineKeeps
<1>3. CASE AfterBadDefine
  BY <1>3, ReturnKeeps DEF AfterBadDefine, Reading
<1>4. CASE LabelLine
  <2>1. /\ StatementLine /\ IsLabelLine(Keys) /\ NextLine /\ ln' = ln + 1
        /\ blocks' = Append(blocks, bb)
        /\ bb' = [label |-> LabelOf[Keys[1]], statements |-> <<>>]
        /\ UNCHANGED <<file, where, parse_error, function_parse, signature>>
    BY <1>4 DEF LabelLine, NextLine
  <2>2. Reading /\ ~file[ln].blank /\ ~IsDefine
    BY <2>1 DEF StatementLine
  <2>3. /\ ln' \in 1..(Len(file) + 1) /\ ln \in Nat \ {0} /\ where = "parse" /\ TextIn(file, ln)
        /\ Keys = file[ln].keys /\ Denotes(file, ln, Append(blocks, bb))
    BY <2>1, <2>2, NextIs
  <2>4. LabelOf[Keys[1]] \in Names
    BY <2>1, KeysAssumption DEF IsLabelLine
  <2>5. bb' \in BasicBlock /\ blocks' \in Seq(BasicBlock) /\ Append(blocks, bb) \in Seq(BasicBlock)
    BY <1>0, <2>1, <2>4 DEF ParserTypeOK, BasicBlock
  <2>6. ParserTypeOK'
    BY <1>0, <2>1, <2>3, <2>5 DEF ParserTypeOK
  <2>7. Denotes(file, ln + 1, Append(Append(blocks, bb),
                                     [label |-> LabelOf[Keys[1]], statements |-> <<>>]))
    BY <2>1, <2>3, <2>4, <2>5, LabelRead
  <2> QED BY <2>1, <2>2, <2>6, <2>7, LineKeeps
<1>5. CASE ParseStatement
  <2>1. StatementLine /\ IsStatement(Keys) /\ AddStatement(StatementOf(Keys)) /\ Reading
    BY <1>5 DEF ParseStatement, StatementLine
  <2>2. StatementOf(Keys) \in Statement
    BY <2>1, NextIs, StatementOfType
  <2>3. ~IsLabelLine(Keys)
    BY <2>1 DEF IsStatement
  <2> QED BY <2>1, <2>2, <2>3, StatementKeeps
<1>6. CASE ReportStatement
  BY <1>6, ReturnKeeps DEF ReportStatement, StatementLine, Reading
<1>7. CASE ReadPastOperation
  <2>1. PICK w \in Stray : /\ StatementLine /\ ShortOperation(Keys)
                           /\ AddStatement(Stmt(Operators[Keys[4]], Keys[1], <<Keys[3], w>>))
    BY <1>7 DEF ReadPastOperation
  <2>2. Keys \in Seq(Names)
    BY <2>1, NextIs DEF StatementLine
  <2>3. ~IsLabelLine(Keys) /\ Undefined(Keys) /\ Len(Keys) = 4 /\ Keys[4] \in DOMAIN Operators
    BY <2>1 DEF ShortOperation, IsOperation, IsAssignment, Undefined
  <2>4. Keys[1] \in Names /\ Keys[3] \in Names /\ w \in Names
    BY <2>2, <2>3, ElementOfSeq, KeysAssumption
  <2>5. Operators[Keys[4]] \in OpTypes \ NoResult
    BY <2>3 DEF Operators, OpTypes, NoResult
  <2>6. <<Keys[3], w>> \in Seq(Names)
    BY <2>4
  <2>7. Stmt(Operators[Keys[4]], Keys[1], <<Keys[3], w>>) \in Statement
    BY <2>4, <2>5, <2>6 DEF Stmt, Statement
  <2> QED BY <2>1, <2>3, <2>7, StatementKeeps
<1>8. CASE ReadPastAssignment
  BY <1>8, ReturnKeeps DEF ReadPastAssignment, StatementLine, Reading
<1>9. CASE Crash
  <2>1. /\ where = "parse" /\ where' = "crashed"
        /\ UNCHANGED <<file, ln, function_parse, parse_error, bb, blocks, signature>>
    BY <1>9 DEF Crash, StatementLine, Reading
  <2>2. ParserTypeOK'
    BY <1>0, <2>1 DEF ParserTypeOK
  <2>3. ParsedBlocks' = ParsedBlocks
    BY <2>1 DEF ParsedBlocks
  <2>4. Denotes(file, ln, ParsedBlocks)
    BY DenotesMeans DEF DenoteInv
  <2>5. Denotes(file, ln, ParsedBlocks)'
    BY <2>1, <2>3, <2>4
  <2> QED BY <2>2, <2>5, DenotesMeansNext DEF DenoteInv
<1>10. CASE EndOfFile
  BY <1>10, ReturnKeeps DEF EndOfFile
<1>11. CASE Stopped
  BY <1>11, DenoteStands DEF Stopped
<1> QED
  BY <1>1, <1>2, <1>3, <1>4, <1>5, <1>6, <1>7, <1>8, <1>9, <1>10, <1>11 DEF ParserNext

LEMMA DenoteKeeps == DenoteInv /\ [RunNext]_runVars => DenoteInv'
BY DenoteNext, DenoteStands DEF RunNext, Parse, Schedule, WriteTop, runVars

\* For every set of files, with whatever lies behind the keys of a short line: the
\* parser's variables have their types, and run() gets basic blocks, at least one.
THEOREM ParserTypeCorrect == RunSpec => []ParserTypeOK
<1>1. RunInit => DenoteInv
  BY DenoteStarts DEF RunInit
<1>2. DenoteInv => ParserTypeOK
  BY DEF DenoteInv
<1> QED
  BY <1>1, <1>2, DenoteKeeps, PTL DEF RunSpec

\* For every set of files: every statement line read is one statement at its place in
\* the block of the label before it, and nothing else is in the blocks (parser::parse).
THEOREM BlocksAlwaysDenoteFile == RunSpec => []BlocksDenoteFile
<1>1. RunInit => DenoteInv
  BY DenoteStarts DEF RunInit
<1>2. DenoteInv => BlocksDenoteFile
  BY DEF DenoteInv
<1> QED
  BY <1>1, <1>2, DenoteKeeps, PTL DEF RunSpec

-----------------------------------------------------------------------------
(* From the file to the design.  Through every step of the parser, the     *)
(* passes and the generator: while there is no file parsed nothing is      *)
(* bound; from then on a finished block has a register for every variable  *)
(* it defines, and a name that is no variable never gets one; and a design *)
(* is written when all blocks are finished.                                *)

\* What Plain says of the blocks: the passes issue every point, and no variable is
\* where a statement has an array, a label or the length.
Coded(s) ==
    {s.ops[j] : j \in {j \in 1..Len(s.ops) : \/ s.type = "LOAD" /\ j = 1
                                             \/ s.type = "PHI" /\ j \in {2, 4}}}
Unmixed ==
    /\ \A l \in 1..Len(blocks) : /\ StraightLine(blocks[l].statements)
                                 /\ RepeatFree(blocks[l].statements)
    /\ \A s, t \in AllStatements : t.var \notin Coded(s)

\* Numbers and n have no register; the variables of the finished blocks and what is
\* issued in this one have.
Registered(l) ==
    \A i \in 1..Len(blocks[l].statements) :
        LET v == blocks[l].statements[i].var IN v # NoVar => regMap[v] >= 0
CloseFacts ==
    /\ \A v \in Names \cap {"0", "1", "n"} : regMap[v] < 0
    /\ \A l \in 1..Len(blocks) : l < b \/ pc \in {"hash", "done"} => Registered(l)
    /\ Walking => \A v \in issued : regMap[v] >= 0 \/ (pc = "release" /\ v = succ)
Closing == Unmixed => CloseFacts
CloseInv == OrderInv /\ Closing

\* The statements of a block are among those of the function.
LEMMA AmongAll ==
  ASSUME NEW l \in 1..Len(blocks), NEW i \in 1..Len(blocks[l].statements)
  PROVE  blocks[l].statements[i] \in AllStatements
BY DEF AllStatements

\* Binding a point gives it a register and takes none away.
LEMMA BindsOne ==
  ASSUME RegisterInv, NEW v \in Names, NEW spare, free # <<>> => spare = colors,
         BindRegister(v, spare)
  PROVE  regMap'[v] >= 0 /\ \A w \in Names \ {v} : regMap'[w] = regMap[w]
<1>1. RegisterTypes /\ colors >= 5 /\ RegistersInRange
  BY DEF RegisterInv, TypeInv, TypeOK
<1>2. /\ \A w \in Names \ {v} : regMap'[w] = regMap[w]
      /\ is_global_reg(v) < 0 => regMap'[v] \in 5..colors'
  BY <1>1, BindInRange
<1>3. colors' \in Nat
  BY <1>1, BindInRange
<1>4. is_global_reg(v) >= 0 => regMap'[v] = is_global_reg(v)
  <2>1. HAVE is_global_reg(v) >= 0
  <2>2. regMap' = [regMap EXCEPT ![v] = is_global_reg(v)]
    BY <2>1, GlobalRange DEF BindRegister
  <2> QED BY <1>1, <2>2 DEF RegisterTypes
<1> QED BY <1>2, <1>3, <1>4, GlobalRange

\* A step of the passes keeps that, action by action.  A block is left when its queue
\* and its visit are over, and then all its points are issued (AllIssuedAtEnd).
LEMMA CloseStep ==
  ASSUME CloseInv, [Next]_vars
  PROVE  Closing'
<1> SUFFICES ASSUME Unmixed' PROVE CloseFacts'
  BY DEF Closing
<1>1. UNCHANGED blocks
  BY SameBlocks
<1>2. Unmixed /\ CloseFacts
  <2>1. AllStatements' = AllStatements
    BY <1>1 DEF AllStatements
  <2>2. Unmixed
    BY <1>1, <2>1 DEF Unmixed
  <2> QED BY <2>2 DEF CloseInv, Closing
<1>3. /\ OrderInv /\ OwingInv /\ RegisterInv /\ TypeInv /\ b \in 1..Len(blocks)
      /\ Len(blocks) \in Nat /\ regMap \in [Names -> Int] /\ issued \subseteq Names
  BY StatementTypes DEF CloseInv, OrderInv, OwingInv, RegisterInv, TypeInv, TypeOK,
     ControlTypes, RegisterTypes, IssueTypes
<1>4. Simple /\ StraightLine(Stmts) /\ RepeatFree(Stmts)
  BY <1>2, <1>3 DEF Unmixed, Simple, Stmts, StraightLine
<1>5. Working => points \cap {"0", "1", "n"} = {} /\ QueueFacts
  BY <1>3, <1>4 DEF OwingInv, Edges, Owing, EdgeFacts, Simple
<1>6. ASSUME NEW l \in 1..Len(blocks), NEW i \in 1..Len(blocks[l].statements)
      PROVE  blocks[l].statements[i].var \in Names \cup {NoVar}
  <2>1. blocks[l] \in BasicBlock
    BY <1>3, StatementTypes DEF TypeInv
  <2>2. blocks[l].statements[i] \in Statement
    BY <2>1 DEF BasicBlock
  <2> QED BY <2>2 DEF Statement
\* A step that gives a register to a point, to nothing or a code to a name that is
\* no variable.
<1>7. ASSUME NEW v \in Names, regMap'[v] >= 0, v \notin {"0", "1", "n"},
             \A w \in Names \ {v} : regMap'[w] = regMap[w]
      PROVE  /\ \A w \in Names \cap {"0", "1", "n"} : regMap'[w] < 0
             /\ \A l \in 1..Len(blocks) : l < b => Registered(l)'
             /\ \A w \in Names : regMap[w] >= 0 => regMap'[w] >= 0
  BY <1>1, <1>2, <1>6, <1>7 DEF CloseFacts, Registered
<1>8. CASE EnterBlock
  BY <1>1, <1>2, <1>8 DEF EnterBlock, CloseFacts, Registered, Walking
<1>9. CASE SkipStatement \/ NewPoint \/ LiteralOperand \/ ValueOperand \/ NextStatement
  <2>1. UNCHANGED <<pc, b, regMap>> /\ pc = "graph"
    BY <1>9 DEF SkipStatement, NewPoint, LiteralOperand, ValueOperand, NextStatement,
       InStatements, InOperands, regs
  <2> QED BY <1>1, <1>2, <2>1 DEF CloseFacts, Registered, Walking
<1>10. CASE ArrayOperand \/ LabelOperand \/ LengthOperand
  <2>1. PICK code \in {-2, -3, -4} : CodedOperand(code)
    BY <1>10 DEF ArrayOperand, LabelOperand, LengthOperand, ArrayCode, LabelCode, LengthCode
  <2>2. /\ InOperands /\ pc = "graph" /\ UNCHANGED <<pc, b>>
        /\ regMap' = [regMap EXCEPT ![Operand] = code]
    BY <1>10, <2>1 DEF ArrayOperand, LabelOperand, LengthOperand, InOperands, InStatements,
       CodedOperand
  <2>3. /\ si \in 1..Len(Stmts) /\ oi \in 1..Len(S.ops) /\ S = Stmts[si]
        /\ Operand = S.ops[oi] /\ Operand \in Names
    BY <1>3, <2>2, AtOperand
  <2>4. Operand \in Coded(S) \/ Operand = "n"
    BY <1>10, <2>3 DEF ArrayOperand, LabelOperand, LengthOperand, IsArray, IsLabel, Coded
  <2>5. S \in AllStatements
    BY <1>3, <2>3, AmongAll DEF Stmts
  <2>6. ASSUME NEW l \in 1..Len(blocks), NEW i \in 1..Len(blocks[l].statements)
        PROVE  blocks[l].statements[i].var # Operand
    <3>1. blocks[l].statements[i].var \notin Coded(S)
      BY <1>2, <2>5, AmongAll DEF Unmixed
    <3>2. blocks[l].statements[i].var # "n"
      BY <1>2 DEF Unmixed, StraightLine, SingleDefinition
    <3> QED BY <2>4, <3>1, <3>2
  <2>7. /\ \A w \in Names : regMap'[w] = IF w = Operand THEN code ELSE regMap[w]
        /\ code < 0
    BY <1>3, <2>1, <2>2, <2>3
  <2>8. ASSUME NEW l \in 1..Len(blocks), Registered(l) PROVE Registered(l)'
    BY <1>1, <1>6, <2>6, <2>7, <2>8 DEF Registered
  <2> QED BY <1>1, <1>2, <2>2, <2>7, <2>8 DEF CloseFacts, Walking
<1>11. CASE GraphDone
  <2>1. UNCHANGED <<b, regMap, issued>> /\ issued = {} /\ pc' = "roots"
    BY <1>3, <1>11 DEF GraphDone, RegisterInv, RootColours, regs
  <2> QED BY <1>1, <1>2, <2>1 DEF CloseFacts, Registered
<1>12. ASSUME NEW p \in pending, IssueRoot(p) PROVE CloseFacts'
  <2>1. /\ pc = "roots" /\ UNCHANGED <<pc, b, succ>> /\ BindRegister(p, Head(free))
        /\ issued' = issued \cup {p}
    BY <1>12 DEF IssueRoot, cursor
  <2>2. p \in Names /\ p \notin {"0", "1", "n"}
    BY <1>3, <1>5, <2>1 DEF Working, QueueFacts, TypeInv, TypeOK, IssueTypes
  <2>3. free # <<>> => Head(free) = colors
    <3>1. Head(<<colors>>) = colors
      OBVIOUS
    <3> QED BY <1>3, <2>1, <3>1 DEF RegisterInv, RootColours
  <2>4. regMap'[p] >= 0 /\ \A w \in Names \ {p} : regMap'[w] = regMap[w]
    BY <1>3, <2>1, <2>2, <2>3, BindsOne
  <2> QED BY <1>1, <1>2, <1>3, <1>7, <2>1, <2>2, <2>4 DEF CloseFacts, Walking
<1>13. CASE RootsDone \/ PopPoint \/ VisitDone
  <2>1. UNCHANGED <<b, regMap, issued>> /\ pc \in {"roots", "queue", "visit"}
        /\ pc' \in {"queue", "visit"}
    BY <1>13 DEF RootsDone, PopPoint, VisitDone, regs, issue
  <2> QED BY <1>1, <1>2, <2>1 DEF CloseFacts, Registered, Walking
<1>14. CASE VisitSuccessor
  <2>1. /\ UNCHANGED <<b, regMap>> /\ pc = "visit"
        /\ \/ UNCHANGED <<pc, issued, succ>>
           \/ pc' = "release" /\ issued' = issued \cup {succ'}
    BY <1>14 DEF VisitSuccessor, StepOver, StartIssue, regs
  <2> QED BY <1>1, <1>2, <2>1 DEF CloseFacts, Registered, Walking
<1>15. CASE ReleaseOperand
  <2>1. UNCHANGED <<b, regMap, pc, succ, issued>> /\ pc = "release"
    BY <1>15 DEF ReleaseOperand, issue
  <2> QED BY <1>1, <1>2, <2>1 DEF CloseFacts, Registered, Walking
<1>16. CASE BindSuccessor
  <2>1. /\ pc = "release" /\ pc' = "visit" /\ UNCHANGED <<b, issued>>
        /\ BindRegister(succ, colors)
    BY <1>16 DEF BindSuccessor
  <2>2. succ \in Names /\ succ \notin {"0", "1", "n"}
    BY <1>3, <1>5, <2>1 DEF Working, QueueFacts, TypeInv, CursorsSet
  <2>3. regMap'[succ] >= 0 /\ \A w \in Names \ {succ} : regMap'[w] = regMap[w]
    BY <1>3, <2>1, <2>2, BindsOne
  <2> QED BY <1>1, <1>2, <1>3, <1>7, <2>1, <2>2, <2>3 DEF CloseFacts, Walking
<1>17. CASE FinishBlock
  <2>1. /\ BlockIssued /\ UNCHANGED regMap
        /\ \/ b < Len(blocks) /\ b' = b + 1 /\ pc' = "enter"
           \/ b = Len(blocks) /\ b' = b /\ pc' = "hash"
    BY <1>3, <1>17 DEF FinishBlock, BlockIssued, regs
  <2>2. points \subseteq issued
    BY <1>3, <1>4, <2>1, AllIssuedAtEnd DEF RepeatFreeIssued
  <2>3. Registered(b)
    <3>1. \A i \in 1..Len(Stmts) : Stmts[i].var # NoVar => Stmts[i].var \in issued
      BY <1>3, <2>1, <2>2 DEF TypeInv, VarsHavePoints, BlockIssued
    <3> QED BY <1>2, <2>1, <3>1 DEF CloseFacts, Registered, Stmts, BlockIssued, Walking
  <2>4. \A l \in 1..Len(blocks) : l < b' \/ pc' \in {"hash", "done"} => l < b \/ l = b
    BY <1>3, <2>1
  <2>5. pc' \notin {"roots", "queue", "visit", "release"}
    BY <2>1
  <2> QED BY <1>1, <1>2, <2>1, <2>3, <2>4, <2>5 DEF CloseFacts, Registered, Walking
<1>18. CASE FillHash \/ Finished \/ UNCHANGED vars
  <2>1. /\ UNCHANGED <<b, regMap, issued, succ>>
        /\ UNCHANGED pc \/ (pc = "hash" /\ pc' = "done")
    BY <1>18 DEF FillHash, Finished, vars, regs, issue, cursor
  <2> QED BY <1>1, <1>2, <2>1 DEF CloseFacts, Registered, Walking
<1> QED BY <1>8, <1>9, <1>10, <1>11, <1>12, <1>13, <1>14, <1>15, <1>16, <1>17, <1>18 DEF Next

\* The result is a name, if the generator reads one.
LEMMA ReturnNamed ==
  ASSUME TypeInv, Defined
  PROVE  ReturnName \in Names \cup {NoVar}
<1> SUFFICES ASSUME ReturnBlocks # {} PROVE ReturnName \in Names
  BY DEF ReturnName
<1>1. blocks \in Seq(BasicBlock) /\ Len(blocks) \in Nat
  BY StatementTypes DEF TypeInv
<1> DEFINE l == Last(ReturnBlocks)
<1> DEFINE ss == blocks[l].statements
<1> DEFINE i == Last(StatementsOf(l, "RET"))
<1>2. ReturnBlocks \subseteq 1..Len(blocks)
  BY DEF ReturnBlocks, blockNum
<1>3. l \in ReturnBlocks
  BY <1>1, <1>2, LastExists DEF Last
<1>4. l \in 1..Len(blocks) /\ StatementsOf(l, "RET") # {}
  BY <1>3 DEF ReturnBlocks, blockNum
<1> HIDE DEF l
<1>5. ss \in Seq(Statement) /\ Len(ss) \in Nat
  <2>1. blocks[l] \in BasicBlock
    BY <1>1, <1>4
  <2> QED BY <2>1 DEF BasicBlock
<1>6. StatementsOf(l, "RET") \subseteq 1..Len(ss)
  BY DEF StatementsOf
<1>7. i \in StatementsOf(l, "RET")
  BY <1>4, <1>5, <1>6, LastExists DEF Last
<1>8. i \in 1..Len(ss) /\ ss[i].type = "RET"
  BY <1>7 DEF StatementsOf
<1> HIDE DEF i
<1>9. HasOperands(ss[i])
  BY <1>4, <1>8 DEF Defined, blockNum
<1>10. ss[i] \in Statement
  BY <1>5, <1>8
<1> HIDE DEF ss
<1>11. ss[i].ops \in Seq(Names) /\ Len(ss[i].ops) >= 1
  BY <1>8, <1>9, <1>10 DEF HasOperands, Statement
<1>12. ss[i].ops[1] \in Names
  BY <1>11
<1> QED BY <1>12 DEF ReturnName, l, i, ss

\* That the generator can write is a matter of the blocks and their ends.
LEMMA SameDefined == Defined /\ UNCHANGED <<blocks, endCycle>> => Defined'
BY DEF Defined, maxBlockCycle, blockNum

\* The passes have what they start from until the file is parsed, and the blocks then.
PassesInv ==
    /\ ~Parsed => NothingBound
    /\ Parsed => CloseInv
    /\ design # "none" => Parsed /\ pc = "done"
    /\ design = "written" => Defined /\ return_name \in Names \cup {NoVar}

\* It holds where run() begins: nothing is bound, no design is there.
LEMMA PassesStart == RunInit => PassesInv
BY DEF RunInit, ParserInit, GenerateInit, PassesInv, Parsed

\* A step that touches neither the blocks nor the passes keeps it.
LEMMA PassesStand ==
  ASSUME PassesInv, UNCHANGED parserVars, UNCHANGED passes
  PROVE  PassesInv'
<1>1. UNCHANGED vars /\ UNCHANGED text
  BY DEF parserVars, passes, vars
<1>2. Parsed' <=> Parsed
  BY DEF parserVars, Parsed
<1>3. CloseInv => CloseInv'
  BY <1>1, CloseStep, OrderInvariantStep DEF CloseInv
<1>4. NothingBound => NothingBound'
  BY <1>1 DEF vars, graph, issue, cursor, regs, result, NothingBound, NoEdges, Zero
<1>5. Defined => Defined'
  BY <1>1, SameDefined DEF vars, result
<1> QED BY <1>1, <1>2, <1>3, <1>4, <1>5 DEF PassesInv, vars, text

\* So does every other: parsing hands the passes blocks with nothing bound, and
\* generating reads what they have left.
LEMMA PassesStep ==
  ASSUME DenoteInv, DenoteInv', PassesInv, [RunNext]_runVars
  PROVE  PassesInv'
<1>1. CASE UNCHANGED runVars
  <2>1. UNCHANGED parserVars /\ UNCHANGED passes
    BY <1>1 DEF runVars
  <2> QED BY <2>1, PassesStand
<1>2. CASE Parse /\ ~Parsed
  <2>1. UNCHANGED passes /\ NothingBound /\ design = "none"
    BY <1>2 DEF Parse, PassesInv
  <2>2. NothingBound' /\ design' = "none"
    BY <2>1 DEF passes, text, graph, issue, cursor, regs, result, NothingBound
  <2>3. Parsed' => CloseInv'
    <3>1. HAVE Parsed'
    <3>2. Unbound'
      BY <2>2, <3>1 DEF DenoteInv, ParserTypeOK, Parsed, Unbound
    <3>3. OrderInv'
      <4>1. Unbound' => OrderInv'
        BY OrderInvariant, PTL
      <4> QED BY <3>2, <4>1
    <3>4. CloseFacts'
      BY <2>2 DEF NothingBound, CloseFacts, Walking, Absent
    <3> QED BY <3>3, <3>4 DEF CloseInv, Closing
  <2> QED BY <2>2, <2>3 DEF PassesInv
<1>3. CASE Parse /\ Parsed
  <2>1. UNCHANGED parserVars
    BY <1>3 DEF Parse, Parsed, ParserNext, SkipBlank, DefineLine, AfterBadDefine, LabelLine,
       ParseStatement, ReportStatement, ReadPastOperation, ReadPastAssignment, Crash,
       EndOfFile, Stopped, StatementLine, Reading
  <2> QED BY <1>3, <2>1, PassesStand DEF Parse
<1>4. CASE Schedule
  <2>1. Parsed /\ Next /\ UNCHANGED parserVars /\ UNCHANGED text /\ CloseInv
    BY <1>4 DEF Schedule, PassesInv
  <2>2. Parsed'
    BY <2>1 DEF Parsed, parserVars
  <2>3. OrderInv' /\ Closing'
    BY <2>1, CloseStep, OrderInvariantStep DEF CloseInv
  <2>4. pc = "done" => UNCHANGED vars
    BY <2>1, DoneStands
  <2>5. UNCHANGED <<design, return_name>>
    BY <2>1 DEF text
  <2>6. design = "written" /\ Defined => Defined'
    <3>1. HAVE design = "written" /\ Defined
    <3>2. UNCHANGED <<blocks, endCycle>>
      BY <2>4, <3>1 DEF PassesInv, vars, result
    <3> QED BY <3>1, <3>2, SameDefined
  <2> QED BY <2>1, <2>2, <2>3, <2>4, <2>5, <2>6 DEF PassesInv, CloseInv, vars
<1>5. CASE WriteTop
  <2>1. Parsed /\ Generate /\ UNCHANGED parserVars /\ CloseInv
    BY <1>5 DEF WriteTop, PassesInv
  <2>2. Parsed' /\ UNCHANGED vars /\ pc = "done"
    BY <2>1 DEF Parsed, parserVars, Generate, OutputNotOpened, WriteDesign,
       GenerateUndefined, Generating
  <2>3. OrderInv' /\ Closing'
    BY <2>1, <2>2, CloseStep, OrderInvariantStep DEF CloseInv
  <2>4. design' = "written" => Defined' /\ return_name' \in Names \cup {NoVar}
    <3>1. HAVE design' = "written"
    <3>2. Defined /\ return_name' = ReturnName
      BY <2>1, <3>1 DEF Generate, OutputNotOpened, WriteDesign, GenerateUndefined
    <3>3. Defined'
      BY <2>2, <3>2, SameDefined DEF vars, result
    <3> QED BY <2>1, <3>2, <3>3, ReturnNamed DEF CloseInv, OrderInv, OwingInv, RegisterInv
  <2>5. pc' = "done"
    BY <2>2 DEF vars
  <2> QED BY <2>2, <2>3, <2>4, <2>5 DEF PassesInv, CloseInv
<1> QED BY <1>1, <1>2, <1>3, <1>4, <1>5 DEF RunNext

\* Whatever is in the blocks is a statement.
LEMMA StatementsTyped ==
  ASSUME DenoteInv, NEW s \in AllStatements
  PROVE  s \in Statement
<1>1. PICK l \in 1..Len(blocks) : \E i \in 1..Len(blocks[l].statements) : blocks[l].statements[i] = s
  BY DEF AllStatements
<1>2. blocks[l] \in BasicBlock
  BY DEF DenoteInv, ParserTypeOK
<1> QED BY <1>1, <1>2 DEF BasicBlock

\* What a statement that the generator writes reads is among its operands.
LEMMA ReadsOperands ==
  ASSUME NEW s \in Written, HasOperands(s), s.ops \in Seq(Names), NEW v \in ValuesIn(s)
  PROVE  \E j \in 1..Len(s.ops) : v = s.ops[j]
<1>1. CASE s.type = "PHI"
  BY <1>1 DEF ValuesIn
<1>2. CASE s.type = "BR"
  <2>1. Len(s.ops) = 3 /\ v = s.ops[1]
    BY <1>2 DEF ValuesIn
  <2> QED BY <2>1
<1>3. CASE s.type = "LOAD"
  <2>1. Len(s.ops) >= 2 /\ v = s.ops[2] /\ Len(s.ops) \in Nat
    BY <1>3 DEF ValuesIn, HasOperands
  <2> QED BY <2>1
<1>4. CASE s.type \notin {"PHI", "BR", "LOAD"}
  BY <1>4 DEF ValuesIn
<1> QED BY <1>1, <1>2, <1>3, <1>4

\* A file whose names each have one use keeps variables apart from arrays and labels.
LEMMA PlainUnmixed == Plain => Unmixed
<1> SUFFICES ASSUME Plain PROVE Unmixed
  OBVIOUS
<1>1. ASSUME NEW s \in AllStatements, NEW t \in AllStatements PROVE t.var \notin Coded(s)
  <2>1. t.var # "0"
    BY DEF Plain, StraightLine, SingleDefinition, AllStatements
  <2>2. t.var \notin (LabelsIn(s) \ {"0"}) \cup ArraysIn(s)
    BY DEF Plain
  <2>3. Coded(s) \subseteq LabelsIn(s) \cup ArraysIn(s)
    BY DEF Coded, LabelsIn, ArraysIn
  <2> QED BY <2>1, <2>2, <2>3
<1> QED BY <1>1 DEF Plain, Unmixed

\* For every set of files, machine and order of the passes' tables: when top.v is
\* written for a file whose names each have one use, every variable in one of its
\* expressions has a register, and what has none is a number or n, whatever block
\* defines it (reg_name; HLSHandler::binding).
THEOREM DesignAlwaysCloses == RunSpec => []DesignCloses
<1>1. DenoteInv /\ PassesInv => DesignCloses
  <2> SUFFICES ASSUME DenoteInv, PassesInv, design = "written", Plain, NEW v \in ValuesWritten
               PROVE  regMap[v] >= 0 <=> v \in Assigned
    BY DEF DesignCloses
  <2>1. Unmixed /\ CloseInv /\ pc = "done" /\ CloseFacts /\ Defined
      /\ return_name \in Names \cup {NoVar}
    BY PlainUnmixed DEF PassesInv, CloseInv, Closing
  <2>2. ASSUME v \in Assigned PROVE regMap[v] >= 0
    <3>1. PICK s \in AllStatements : s.var = v /\ v # NoVar
      BY <2>2 DEF Assigned, Written
    <3>2. PICK l \in 1..Len(blocks) : \E i \in 1..Len(blocks[l].statements) :
            blocks[l].statements[i] = s
      BY DEF AllStatements
    <3> QED BY <2>1, <3>1, <3>2 DEF CloseFacts, Registered
  <2>3. ASSUME v \notin Assigned PROVE ~(regMap[v] >= 0)
    <3>1. v \in {"0", "1", "n"}
      BY <2>3 DEF Plain
    <3>2. v \in Names
      <4>1. CASE v = return_name
        BY <2>1, <3>1, <4>1 DEF NoVar
      <4>2. ASSUME NEW s \in Written, v \in ValuesIn(s) PROVE v \in Names
        <5>1. s.ops \in Seq(Names) /\ HasOperands(s)
          <6>1. s \in AllStatements
            BY <4>2 DEF Written
          <6>2. PICK l \in 1..Len(blocks) : \E i \in 1..Len(blocks[l].statements) :
                  blocks[l].statements[i] = s
            BY <6>1 DEF AllStatements
          <6>3. HasOperands(s)
            BY <2>1, <6>2 DEF Defined, blockNum
          <6>4. s \in Statement
            BY <6>1, StatementsTyped
          <6> QED BY <6>3, <6>4 DEF Statement
        <5>2. \E j \in 1..Len(s.ops) : v = s.ops[j]
          BY <4>2, <5>1, ReadsOperands
        <5> QED BY <5>1, <5>2
      <4> QED BY <2>3, <4>1, <4>2 DEF ValuesWritten
    <3>3. regMap[v] < 0 /\ regMap[v] \in Int
      BY <2>1, <3>1, <3>2 DEF CloseFacts, CloseInv, OrderInv, OwingInv, RegisterInv, TypeInv,
         TypeOK, RegisterTypes
    <3> QED BY <3>3
  <2> QED BY <2>2, <2>3
<1>2. RunInit => DenoteInv /\ PassesInv
  BY DenoteStarts, PassesStart DEF RunInit
<1>3. DenoteInv /\ PassesInv /\ [RunNext]_runVars => (DenoteInv /\ PassesInv)'
  BY DenoteKeeps, PassesStep
<1> QED BY <1>1, <1>2, <1>3, PTL DEF RunSpec
=============================================================================
