------------------------------ MODULE RestServer ------------------------------
(***************************************************************************)
(* The REST head lifecycle of src/lwraft/server/rest-head/libmain.c:      *)
(* VmDirRESTServerInit loads the VmAfd API, the token cache and the API   *)
(* definition, then starts an HTTP and an HTTPS listener (each a handle   *)
(* of the REST library: init, register every endpoint, start);            *)
(* VmDirRESTServerStop stops both published handles; VmDirRESTServerShutdown*)
(* frees both handles and the three global resources.  The library calls  *)
(* may fail; VmRESTStop fails when the detached threads do not finish in  *)
(* the stop timeout, and then the handle's threads may still run.  The    *)
(* daemon calls Init once and, at exit, Stop and then Shutdown only if    *)
(* Stop succeeded: the pattern Init's own error path uses.               *)
(***************************************************************************)
EXTENDS FiniteSets

Kinds == {"http", "https"}
Globals == {"afd", "cache", "apidef"}

VARIABLES
    pc,         \* the daemon: where it is in Init and the exit sequence
    conf,       \* conf[k]: the listener is configured (port set, and an SSL context for https)
    handle,     \* handle[k]: "null", "inited", "started", "stopped", "stuck" or "freed"
    published,  \* published[k]: gpVdirRestHTTP(S)Handle points to handle[k]
    res,        \* res[g]: "none", "live" or "freed"
    ptr,        \* ptr[g]: the global pointer to res[g] is not NULL
    doubleFree, \* a resource was freed twice
    stopRet     \* the result of the last VmDirRESTServerStop is 0

vars == <<pc, conf, handle, published, res, ptr, doubleFree, stopRet>>

Init ==
    /\ pc = "afd"
    /\ conf \in [Kinds -> BOOLEAN]
    /\ handle = [k \in Kinds |-> "null"]
    /\ published = [k \in Kinds |-> FALSE]
    /\ res = [g \in Globals |-> "none"]
    /\ ptr = [g \in Globals |-> FALSE]
    /\ doubleFree = FALSE
    /\ stopRet = FALSE

Load(g) == res' = [res EXCEPT ![g] = "live"] /\ ptr' = [ptr EXCEPT ![g] = TRUE]

\* VmDirRESTLoadVmAfdAPI, then VmDirRESTCacheInit whose failure is ignored.
LoadVmAfdAPI ==
    /\ pc = "afd"
    /\ \/ /\ \E c \in BOOLEAN :
                /\ res' = [res EXCEPT !["afd"] = "live", !["cache"] = IF c THEN "live" ELSE @]
                /\ ptr' = [ptr EXCEPT !["afd"] = TRUE, !["cache"] = c]
          /\ pc' = "load"
       \/ pc' = "error" /\ UNCHANGED <<res, ptr>>
    /\ UNCHANGED <<conf, handle, published, doubleFree, stopRet>>

\* coapi_load_from_file, then coapi_map_api_impl (a failure leaves the
\* loaded definition in place).
LoadApiDef ==
    /\ pc = "load"
    /\ \/ Load("apidef") /\ pc' \in {"http", "error"}
       \/ pc' = "error" /\ UNCHANGED <<res, ptr>>
    /\ UNCHANGED <<conf, handle, published, doubleFree, stopRet>>

(***************************************************************************)
(* _VmDirRESTServerInitHTTP(S): nothing when not configured; otherwise    *)
(* VmRESTInit, VmRESTRegisterHandler per endpoint, VmRESTStart, and the   *)
(* handle is published.  On a failure after VmRESTInit the error path     *)
(* frees the local handle only if _VmDirStopRESTHandle succeeds.          *)
(***************************************************************************)
InitListener(k, next) ==
    /\ pc = k
    /\ IF ~conf[k]
       THEN pc' = next /\ UNCHANGED <<handle, published>>
       ELSE \/ /\ handle' = [handle EXCEPT ![k] = "started"]
               /\ published' = [published EXCEPT ![k] = TRUE]
               /\ pc' = next
            \/ /\ pc' = IF k = "http" THEN "error" ELSE next
               /\ handle' \in {[handle EXCEPT ![k] = s] : s \in {"null", "freed", "inited"}}
               /\ UNCHANGED published
    /\ UNCHANGED <<conf, res, ptr, doubleFree, stopRet>>

InitHTTP == InitListener("http", "https")
InitHTTPS == InitListener("https", "up")

\* Free a global resource; the API definition pointer is set to NULL,
\* the cache and the VmAfd API pointers are left as they are.
FreeGlobals ==
    /\ doubleFree' = (doubleFree \/ \E g \in Globals : ptr[g] /\ res[g] = "freed")
    /\ res' = [g \in Globals |-> IF ptr[g] THEN "freed" ELSE res[g]]
    /\ ptr' = [g \in Globals |-> ptr[g] /\ g # "apidef"]

\* _VmDirRESTServerShutdownHTTP(S): _VmDirFreeRESTHandle (unregister every
\* endpoint, VmRESTShutdown) on the published handle, pointer set to NULL.
ShutdownHandles ==
    /\ handle' = [k \in Kinds |-> IF published[k] THEN "freed" ELSE handle[k]]
    /\ published' = [k \in Kinds |-> FALSE]

\* Called from Init's error label, or by the daemon at exit whether Init
\* returned success or an error.
StopCallers == {"error", "up", "failed"}
AfterStop == [c \in StopCallers |-> IF c = "error" THEN "errorShutdown" ELSE "exitShutdown"]

\* _VmDirStopRESTHandle: VmRESTStop with the stop timeout succeeds, or the
\* detached threads are still running when it returns.
StopRESTHandle(finished) == IF finished THEN "stopped" ELSE "stuck"

\* Mutant: VmDirRESTServerStop returns only the HTTP result.
ServerStopHttpOnly ==
    /\ pc \in StopCallers
    /\ \E out \in [Kinds -> BOOLEAN] :
          /\ handle' = [k \in Kinds |-> IF published[k]
                                        THEN StopRESTHandle(out[k]) ELSE handle[k]]
          /\ stopRet' = (published["http"] => out["http"])
    /\ pc' = AfterStop[pc]
    /\ UNCHANGED <<conf, published, res, ptr, doubleFree>>

\* VmDirRESTServerStop: VmRESTStop on both published handles, "stopped"
\* or "stuck" when the threads outlive the timeout; the results are or-ed.
ServerStop ==
    /\ pc \in StopCallers
    /\ \E out \in [Kinds -> BOOLEAN] :
          /\ handle' = [k \in Kinds |-> IF published[k]
                                        THEN StopRESTHandle(out[k]) ELSE handle[k]]
          /\ stopRet' = \A k \in Kinds : published[k] => out[k]
    /\ pc' = AfterStop[pc]
    /\ UNCHANGED <<conf, published, res, ptr, doubleFree>>

\* if (VmDirRESTServerStop() == 0) VmDirRESTServerShutdown(): unregister
\* and shut down both published handles, clear their pointers, free the
\* globals.
ServerShutdown ==
    /\ pc \in {"errorShutdown", "exitShutdown"}
    /\ IF stopRet
       THEN ShutdownHandles /\ FreeGlobals
       ELSE UNCHANGED <<handle, published, res, ptr, doubleFree>>
    /\ pc' = IF pc = "errorShutdown" THEN "failed" ELSE "down"
    /\ UNCHANGED <<conf, stopRet>>

Done == pc = "down" /\ UNCHANGED vars

Next ==
    \/ LoadVmAfdAPI \/ LoadApiDef
    \/ InitHTTP \/ InitHTTPS
    \/ ServerStop \/ ServerShutdown \/ Done

Spec == Init /\ [][Next]_vars

-----------------------------------------------------------------------------
\* A listener handle is shut down (its handlers unregistered and the
\* library's state freed) only after VmRESTStop returned success for it:
\* never while its detached threads may still be running.
FreedOnlyWhenStopped ==
    [][\A k \in Kinds :
         handle'[k] = "freed" /\ handle[k] # "freed" =>
             handle[k] \notin {"started", "stuck"}]_vars

\* No global of the REST head is freed twice, whatever Init and the exit
\* sequence went through.
NoDoubleFree == ~doubleFree

=============================================================================
