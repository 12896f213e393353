------------------------------ MODULE Includes ------------------------------
(***************************************************************************)
(* Running files in a web worker (driver.scm, include.scm, evaluate.scm).  *)
(* A page runs a file, which includes others by name; a name is looked for *)
(* in the directory of the page and then in that of the file *PHP-FILE*.   *)
(* Parsed files are kept for later pages under a digest of their text, so  *)
(* files may change at any time but files with one text share one tree,    *)
(* which names the first of them in all its locations.                     *)
(***************************************************************************)
EXTENDS Integers, Sequences, FiniteSets

CONSTANTS
    Dirs, Names,    \* a file has a directory and a name in it
    Texts,          \* what files may hold; a text stands for its digest
    TooBig,         \* the texts that are too big to keep
    MaxMemoized,    \* %%max-memoized-files
    MaxNesting      \* bound: files in the middle of running; and files
                    \* are written while it is not reached

Files == Dirs \X Names
Missing == "missing"

ASSUME IncludesAssumption ==
    /\ IsFiniteSet(Texts) /\ TooBig \subseteq Texts /\ Missing \notin Texts
    /\ MaxMemoized \in Nat /\ MaxNesting \in Nat \ {0}

VARIABLES
    fileText,       \* what every file holds
    memo,       \* %%memoized-parses: the kept trees, with the text and the file
    nested,    \* files in the middle of running, innermost last
    phpFile,    \* *PHP-FILE*
    cwd,        \* the directory of the page
    included,   \* *all-files-ever-included*
    twice,      \* an include_once of a page ran what the page had included
    restored    \* the page has called restore_include_path

including == <<fileText, memo, nested, phpFile, cwd, included, twice, restored>>

NotFound == <<"none", "none">>

IncludesInit ==
    /\ fileText \in [Files -> Texts \cup {Missing}]
    /\ memo = {} /\ nested = <<>> /\ phpFile = NotFound
    /\ cwd \in Dirs /\ included = {}
    /\ twice = FALSE /\ restored = FALSE

Current == nested[Len(nested)]
DirOf(file) == file[1]

-----------------------------------------------------------------------------
(* %memoized-parse: the kept tree of this text, or a new one.  The table is *)
(* emptied when it is found over its limit, whatever is asked for.          *)
(* Mutants: trees found by the name of the file, and a table looked after   *)
(* only when a page begins.                                                 *)
FoundByName(tree, file) == tree.file = file
Found(tree, file) == tree.text = fileText[file]

EmptiedByPage == IF Cardinality(memo) > MaxMemoized /\ nested = <<>> THEN {} ELSE memo
Emptied == IF Cardinality(memo) > MaxMemoized THEN {} ELSE memo

Parse(file, tree) ==
    LET new == [text |-> fileText[file], file |-> file]
        hits == {t \in Emptied : Found(t, file)}
    IN IF fileText[file] \in TooBig \/ hits = {}
       THEN /\ tree = new
            /\ memo' = IF fileText[file] \in TooBig THEN Emptied ELSE Emptied \cup {new}
       ELSE tree \in hits /\ memo' = Emptied

(* evaluate of a php-ast                                                    *)
Evaluate(file) ==
    \E tree \in memo \cup {[text |-> fileText[file], file |-> file]} :
        /\ Parse(file, tree)
        /\ nested' = Append(nested, [file |-> file, text |-> fileText[file], tree |-> tree])
        /\ phpFile' = tree.file

(* run-url: a page begins, in the directory of its file.                    *)
RunUrl(file) ==
    /\ nested = <<>> /\ fileText[file] # Missing
    /\ cwd' = DirOf(file)
    /\ Evaluate(file)
    /\ UNCHANGED <<fileText, included, twice, restored>>

-----------------------------------------------------------------------------
(* do-include.  The call has set *PHP-FILE* to its own location before, and *)
(* does so again afterwards.  Mutant: what counts as included is the file    *)
(* that the tree names.                                                     *)
Search(name) ==
    LET first == <<cwd, name>>
        second == <<DirOf(Current.tree.file), name>>
    IN IF fileText[first] # Missing THEN first
       ELSE IF fileText[second] # Missing THEN second
       ELSE NotFound

MarkTree(file) == included' = included \cup {phpFile'}
MarkIncluded(file) == included' = included \cup {file}

Include(name, once) ==
    /\ nested # <<>> /\ Len(nested) < MaxNesting
    /\ LET file == Search(name)
       IN IF file = NotFound \/ (once /\ file \in included)
          THEN /\ phpFile' = Current.tree.file
               /\ UNCHANGED <<memo, nested, included, twice>>
          ELSE /\ Evaluate(file)
               /\ MarkIncluded(file)
               /\ twice' = (twice \/ (once /\ \E i \in 2..Len(nested) : nested[i].file = file))
    /\ UNCHANGED <<fileText, cwd, restored>>

FinishFile ==
    /\ nested # <<>>
    /\ nested' = SubSeq(nested, 1, Len(nested) - 1)
    /\ phpFile' = IF Len(nested) = 1 THEN phpFile ELSE nested[Len(nested) - 1].tree.file
    /\ UNCHANGED <<fileText, memo, cwd, included, twice, restored>>

(* An exception that an outer file catches: *PHP-FILE* stays as it is until *)
(* the next call.                                                           *)
RaiseInFile(n) ==
    /\ n \in 1..(Len(nested) - 1)
    /\ nested' = SubSeq(nested, 1, n)
    /\ UNCHANGED <<fileText, memo, phpFile, cwd, included, twice, restored>>

(* restore_include_path of the script, and the same at the end of a page.   *)
RestoreIncludePath ==
    /\ nested # <<>>
    /\ included' = {} /\ restored' = TRUE
    /\ UNCHANGED <<fileText, memo, nested, phpFile, cwd, twice>>

EndOfPage ==
    /\ nested' = <<>> /\ included' = {}
    /\ twice' = FALSE /\ restored' = FALSE
    /\ UNCHANGED <<fileText, memo, phpFile, cwd>>

(* Somebody writes or deletes a file.                                       *)
Edit(file, text) ==
    /\ Len(nested) < MaxNesting - 1
    /\ fileText' = [fileText EXCEPT ![file] = text]
    /\ UNCHANGED <<memo, nested, phpFile, cwd, included, twice, restored>>

IncludesNext ==
    \/ \E file \in Files : RunUrl(file)
    \/ \E name \in Names, once \in BOOLEAN : Include(name, once)
    \/ FinishFile \/ RestoreIncludePath \/ EndOfPage
    \/ \E n \in 1..MaxNesting : RaiseInFile(n)
    \/ \E file \in Files, text \in Texts \cup {Missing} : Edit(file, text)

IncludesSpec == IncludesInit /\ [][IncludesNext]_including

-----------------------------------------------------------------------------
(* Whatever is edited, and whatever the cache holds from earlier pages, a   *)
(* file runs with the text it had when it was started.                      *)
RunsWhatIsThere == \A i \in DOMAIN nested : nested[i].tree.text = nested[i].text

(* A file that includes itself once, directly or by way of others, does not *)
(* run inside of itself again, unless the page forgot what it had included. *)
OnceIsOnce == twice => restored

(* The parse cache never has more than one tree over its limit.             *)
CacheBounded == Cardinality(memo) <= MaxMemoized + 1
=============================================================================
