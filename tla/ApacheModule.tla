---------------------------- MODULE ApacheModule ----------------------------
(***************************************************************************)
(* mod_pcc in one Apache process (apache1/mod_pcc.c, apache1/apache.scm,   *)
(* run-url of driver.scm).  The directives of a directory are read, merged *)
(* with those of the one around it, and decide who serves a request; then  *)
(* requests are served one at a time (mod_pcc_mutex).  general_handler     *)
(* puts things into the runtime before it knows whether a page will run,   *)
(* and only a page that runs to its end takes them out again.              *)
(*                                                                         *)
(* What lies in the runtime is told apart by the number of the request     *)
(* that put it there.                                                      *)
(***************************************************************************)
EXTENDS Integers, Sequences

CONSTANTS
    Extensions,     \* of files, ".php" among them
    MaxExts,        \* MAX_EXTS
    MaxSettings,  \* bounds: directives in the configuration,
    MaxRequests     \* and requests that are served

ASSUME ModuleAssumption ==
    /\ ".php" \in Extensions
    /\ MaxExts \in Nat \ {0} /\ {MaxSettings, MaxRequests} \subseteq Nat

ConfDirs == {"outer", "inner"}

VARIABLES
    conf,       \* what each directory's own directives say
    settings, \* how many were read
    runtime,    \* the requests that $_FILES, the other superglobals, the
                \* temporary and the real include path, *headers* and
                \* *response-code* are from
    serving,    \* the request that is being served
    lastWhole   \* the last one whose page ran to its end

apache == <<conf, settings, runtime, serving, lastWhole>>

(* pcc_create_per_dir.                                                      *)
NewConf == [include |-> FALSE, lib |-> FALSE, index |-> FALSE,
            exts |-> <<".php">>, custom |-> FALSE]

NoOne == [n |-> 0, dir |-> "outer", at |-> "idle"]

(* init-apache-backend.                                                     *)
FreshRuntime == [files |-> {}, vars |-> {}, temp |-> {}, paths |-> {},
                 headers |-> {}, code |-> 0]

ApacheInit ==
    /\ conf = [d \in ConfDirs |-> NewConf]
    /\ settings = 0
    /\ runtime = FreshRuntime
    /\ serving = NoOne
    /\ lastWhole = 0

-----------------------------------------------------------------------------
(* Directives: include_path, a mounted webapp with or without its index,    *)
(* and one extension after the other, the first instead of ".php".          *)
pcc_apache_value_handler(c) == [c EXCEPT !.include = TRUE]

mount_webapp(c, index) == [c EXCEPT !.lib = TRUE, !.index = @ \/ index]

do_webapp_exts(c, ext) ==
    IF Len(c.exts) = MaxExts THEN c
    ELSE [c EXCEPT !.exts = Append(IF c.custom THEN @ ELSE <<>>, ext), !.custom = TRUE]

Configure(d) ==
    /\ serving.n = 0 /\ settings < MaxSettings
    /\ settings' = settings + 1
    /\ \E c \in {pcc_apache_value_handler(conf[d])}
                \cup {mount_webapp(conf[d], index) : index \in BOOLEAN}
                \cup {do_webapp_exts(conf[d], ext) : ext \in Extensions} :
          conf' = [conf EXCEPT ![d] = c]
    /\ UNCHANGED <<runtime, serving, lastWhole>>

(* pcc_merge_per_dir: the include paths add up, the nearer library hides    *)
(* the other with its index, and the extensions are the nearer ones even    *)
(* when they are just the default.                                          *)
Merged(parent, near) ==
    [include |-> near.include \/ parent.include,
     lib |-> near.lib \/ parent.lib,
     index |-> IF near.lib THEN near.index ELSE parent.index,
     exts |-> near.exts, custom |-> near.custom]

ConfOf(d) == IF d = "outer" THEN conf[d] ELSE Merged(conf["outer"], conf[d])

-----------------------------------------------------------------------------
(* check_for_webapp: the library serves names with one of its extensions,   *)
(* and directories that are there, if it has an index.                      *)
try_file_in_lib(d, ext) == \E i \in DOMAIN ConfOf(d).exts : ConfOf(d).exts[i] = ext
try_lib_index(d, isDir) == isDir /\ ConfOf(d).index

Fixup(d, ext, isDir) ==
    /\ serving.at = "idle" /\ serving.n < MaxRequests
    /\ ConfOf(d).lib => try_file_in_lib(d, ext) \/ try_lib_index(d, isDir)
    /\ serving' = [n |-> serving.n + 1, dir |-> d, at |-> "handler"]
    /\ UNCHANGED <<conf, settings, runtime, lastWhole>>

reqno == serving.n
Now(there) == serving' = [serving EXCEPT !.at = there]
Kept == UNCHANGED <<conf, settings>>

(* general_handler: the include path of the directory, and the request,     *)
(* which may not be a good one; its files, if it brings any.                *)
general_handler ==
    LET put == IF ConfOf(serving.dir).include THEN [runtime EXCEPT !.temp = {reqno}] ELSE runtime
    IN /\ serving.at = "handler"
       /\ \/ runtime' \in {runtime, put} /\ Now("idle")
          \/ \E files \in {{}, {reqno}} :
                runtime' = [put EXCEPT !.files = @ \cup files] /\ Now("run")
       /\ Kept /\ UNCHANGED lastWhole

(* Declined: the path of a webapp is too short, or the page is not there.   *)
Declined ==
    /\ serving.at = "run"
    /\ Now("idle")
    /\ Kept /\ UNCHANGED <<runtime, lastWhole>>

(* do-run-url, do-include-paths and the startup functions of run-url.       *)
do_run_url ==
    /\ serving.at = "run"
    /\ runtime' = [runtime EXCEPT !.vars = @ \cup {reqno}, !.paths = @ \cup runtime.temp]
    /\ Now("page")
    /\ Kept /\ UNCHANGED lastWhole

(* file-not-found, or what a shutdown function or an output callback        *)
(* raises: an error for Apache, with nothing reset.                         *)
Escaped ==
    /\ serving.at = "page"
    /\ Now("idle")
    /\ Kept /\ UNCHANGED <<runtime, lastWhole>>

(* header().                                                                *)
SendHeader ==
    /\ serving.at = "page"
    /\ \/ runtime' = [runtime EXCEPT !.headers = @ \cup {reqno}]
       \/ runtime' = [runtime EXCEPT !.code = reqno]
    /\ Kept /\ UNCHANGED <<serving, lastWhole>>

(* Mutant: restore-include-paths leaves the temporary paths.                *)
PageDoneTempKept ==
    /\ serving.at = "page"
    /\ runtime' = [FreshRuntime EXCEPT !.code = runtime.code, !.temp = runtime.temp]
    /\ lastWhole' = reqno
    /\ Now("idle")
    /\ Kept

(* The end of the page, with its end-page-reset-functions and               *)
(* reset-superglobals!; then the answer.  Nobody resets *response-code*.    *)
PageDone ==
    /\ serving.at = "page"
    /\ runtime' = [FreshRuntime EXCEPT !.code = runtime.code]
    /\ lastWhole' = reqno
    /\ Now("idle")
    /\ Kept

-----------------------------------------------------------------------------
ApacheNext ==
    \/ \E d \in ConfDirs : Configure(d)
    \/ \E d \in ConfDirs, ext \in Extensions, isDir \in BOOLEAN : Fixup(d, ext, isDir)
    \/ general_handler \/ Declined \/ do_run_url
    \/ Escaped \/ SendHeader \/ PageDone

ApacheSpec == ApacheInit /\ [][ApacheNext]_apache

-----------------------------------------------------------------------------
(* A page has its own variables, and the include path of its directory.     *)
(* What else it finds in the runtime is from requests after the last page   *)
(* that ran to its end: every such page takes out whatever those before it  *)
(* have left there.                                                         *)
InRuntime == runtime.files \cup runtime.vars \cup runtime.paths \cup runtime.headers

LeftByTheUnfinished ==
    serving.at = "page" =>
        /\ reqno \in runtime.vars
        /\ ConfOf(serving.dir).include => reqno \in runtime.paths
        /\ \A m \in InRuntime : m > lastWhole
=============================================================================
