------------------------------- MODULE Chunking -------------------------------
(***************************************************************************)
(* chunk_text (eval/multi_turn.py): the long context of a benchmark task is *)
(* cut into overlapping chunks, which the agent searches with its           *)
(* recall_memory tool instead of reading the context.  What no chunk holds  *)
(* in one piece it cannot find.                                            *)
(***************************************************************************)
EXTENDS Integers, Sequences, FiniteSets

CONSTANTS
  MaxChars,   \* max_chars: 2000 in the code
  Window,     \* int(max_chars * 0.7)
  Overlap,    \* overlap: 100 in the code
  MaxText     \* bound: length of the text

(* The parameters of the only caller, load_hf_tasks, satisfy it.           *)
ASSUME ChunkAssumption ==
  /\ {MaxChars, Window, Overlap, MaxText} \subseteq Nat
  /\ Overlap <= Window /\ Window < MaxChars

VARIABLES
  text,     \* the context, of which only kinds of characters matter
  start,    \* the number of characters before the next chunk
  chunks,   \* [from, to]: the text without its first from, up to its to-th character
  cutting   \* the loop is running

chunkVars == <<text, start, chunks, cutting>>

Char == {"newline", "dot", "space", "letter"}
IsBlank(c) == c \in {"newline", "space"}

ChunkInit ==
  /\ text \in UNION {[1..n -> Char] : n \in 0..MaxText}
  /\ start = 0
  /\ chunks = {}
  /\ cutting = TRUE

-----------------------------------------------------------------------------
(* The natural boundaries: a paragraph or a line ends the search, a         *)
(* sentence gives way to a word that ends further on.                      *)

Paragraph == <<"newline", "newline">>
Line == <<"newline">>
Sentence == <<"dot", "space">>
Word == <<"space">>

(* text.rfind(sep, from, to)                                               *)
Finds(sep, from, to) ==
  {i \in from..(to - Len(sep)) : \A k \in 1..Len(sep) : text[i + k] = sep[k]}
RFind(sep, from, to) ==
  IF Finds(sep, from, to) = {} THEN -1
  ELSE CHOOSE i \in Finds(sep, from, to) : \A o \in Finds(sep, from, to) : o <= i

After(sep, best, from, to) ==
  IF RFind(sep, from, to) > best THEN RFind(sep, from, to) + Len(sep) ELSE best

Best(from, to) ==
  LET paragraph == After(Paragraph, -1, from, to)
      line == After(Line, paragraph, from, to)
      sentence == After(Sentence, -1, from, to)
  IN IF paragraph # -1 THEN paragraph
     ELSE IF line # -1 THEN line
     ELSE After(Word, sentence, from, to)

EndOfChunk(s) ==
  IF s + MaxChars >= Len(text) THEN Len(text)
  ELSE LET best == Best(s + Window, s + MaxChars)
       IN IF best > s THEN best ELSE s + MaxChars

(* strip(): from the first to the last character that is not blank.        *)
Stripped(s, e) ==
  LET solid == {i \in (s + 1)..e : ~IsBlank(text[i])} IN
    {[from |-> i - 1, to |-> j] : i \in {k \in solid : \A o \in solid : k <= o},
                                  j \in {k \in solid : \A o \in solid : k >= o}}

NextStartLate(s, e) == IF e - Overlap > s THEN e - Overlap + 1 ELSE s + 1

NextStart(s, e) == IF e - Overlap > s + 1 THEN e - Overlap ELSE s + 1

-----------------------------------------------------------------------------
(* A short text is returned as it is, an empty one without any chunk.       *)
ReturnWhole ==
  /\ cutting /\ Len(text) <= MaxChars
  /\ chunks' = IF text = <<>> THEN {} ELSE {[from |-> 0, to |-> Len(text)]}
  /\ cutting' = FALSE
  /\ UNCHANGED <<text, start>>

Cut ==
  /\ cutting /\ Len(text) > MaxChars
  /\ LET end == EndOfChunk(start) IN
       /\ chunks' = chunks \cup Stripped(start, end)
       /\ cutting' = (end < Len(text))
       /\ start' = IF end < Len(text) THEN NextStart(start, end) ELSE start
  /\ UNCHANGED text

ChunkNext == ReturnWhole \/ Cut

ChunkSpec == ChunkInit /\ [][ChunkNext]_chunkVars

-----------------------------------------------------------------------------
(* When the text is cut, each passage of it that begins and ends with a     *)
(* character and is at most one longer than the overlap lies in one chunk,  *)
(* wherever the boundaries fell; and no chunk is empty or too long.         *)
Passages ==
  {p \in [first : 1..Len(text), last : 1..Len(text)] :
     /\ p.first <= p.last /\ p.last - p.first <= Overlap
     /\ ~IsBlank(text[p.first]) /\ ~IsBlank(text[p.last])}

HoldsPassage(c, p) == c.from < p.first /\ p.last <= c.to

ContextKept ==
  /\ ~cutting => \A p \in Passages : \E c \in chunks : HoldsPassage(c, p)
  /\ \A c \in chunks : 0 <= c.from /\ c.from < c.to /\ c.to <= Len(text)
                         /\ c.to - c.from <= MaxChars
=============================================================================
