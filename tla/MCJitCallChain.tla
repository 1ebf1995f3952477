--------------------------- MODULE MCJitCallChain ---------------------------
(***************************************************************************)
(* Small scripts for JitCallChain.  Each is chosen so that the ways a call *)
(* can end meet: return, run-time exception caught here or further out,    *)
(* suspension, overflow, a callee left to the interpreter, recursion and a *)
(* nested execution started by a system function; and loops that only a    *)
(* suspend request ends.                                                   *)
(***************************************************************************)
EXTENDS JitCallChain

Do(o) == [op |-> o, fn |-> "main", to |-> 0]
CallOf(o, f) == [op |-> o, fn |-> f, to |-> 0]
BranchTo(p) == [op |-> "br", fn |-> "main", to |-> p]

MCFn == {"main", "work", "raw", "leaf", "loop", "unit"}

\* main: do { try { leaf(); p(); a / b; } catch { } suspend point } while (...)
\* where p is a handle to work.
\* work: if (...) raw(); if (...) o.main(), a method; q(), a handle to a function
\* of the application; h(), a handle to loop
\* raw, which was not compiled: do { h(); o[i]; suspend point } while (...), where
\* [] is an operator of the application's object o.
\* leaf: do { a / b; loop(); suspend point } while (...)
\* loop: unit(); do { a / b; suspend point } while (...)
\* unit: one statement.  This and loop are inlined.
CallCode ==
    [main |-> <<Do("entry"), CallOf("call", "leaf"), Do("entry"),
                CallOf("callptr", "work"), Do("entry"), Do("div"),
                BranchTo(9), Do("op"), Do("suspend"), Do("entry"),
                BranchTo(2), Do("ret")>>,
     work |-> <<Do("entry"), BranchTo(5), CallOf("call", "raw"), Do("entry"),
                BranchTo(8), CallOf("method", "main"), Do("entry"),
                Do("bound"), Do("entry"), CallOf("callptr", "loop"), Do("entry"),
                Do("ret")>>,
     raw  |-> <<Do("entry"), CallOf("callptr", "loop"), Do("entry"),
                Do("thiscall1"), Do("entry"), Do("suspend"), BranchTo(2),
                Do("ret")>>,
     leaf |-> <<Do("entry"), Do("div"), CallOf("call", "loop"), Do("entry"),
                Do("suspend"), Do("entry"), BranchTo(2), Do("ret")>>,
     loop |-> <<Do("entry"), CallOf("call", "unit"), Do("div"), Do("suspend"),
                BranchTo(3), Do("ret")>>,
     unit |-> <<Do("entry"), Do("op"), Do("ret")>>]

CallHandlers ==
    [f \in MCFn |-> IF f = "main" THEN <<[try |-> 2, catch |-> 8]>> ELSE <<>>]

\* main: try { sys(); try { work(); o[i] } catch { } } catch { }
\* work: raw(); bound(); o.loop();  raw, which was not compiled: leaf(); bound();
\* leaf: sys(); where sys, the operator [] of the application's object o and
\* bound, an imported function or a handle to one of the application, may run
\* any of the six on the same context.
SysCode ==
    [main |-> <<Do("entry"), Do("sys"), Do("entry"), Do("op"),
                CallOf("call", "work"), Do("entry"), Do("thiscall1"), Do("entry"),
                BranchTo(11), Do("op"), BranchTo(13), Do("op"), Do("ret")>>,
     work |-> <<Do("entry"), CallOf("call", "raw"), Do("entry"), Do("bound"),
                Do("entry"), CallOf("method", "loop"), Do("entry"), Do("ret")>>,
     raw  |-> <<Do("entry"), CallOf("call", "leaf"), Do("entry"), Do("bound"),
                Do("entry"), Do("ret")>>,
     leaf |-> <<Do("entry"), Do("sys"), Do("entry"), Do("ret")>>,
     loop |-> CallCode["loop"],
     unit |-> CallCode["unit"]]

SysHandlers ==
    [f \in MCFn |->
        IF f = "main"
        THEN <<[try |-> 2, catch |-> 12], [try |-> 4, catch |-> 10]>>
        ELSE <<>>]

MCCompiled == MCFn \ {"raw"}
MCSimple == {"leaf", "raw", "loop", "unit"}
MCInlined == {"loop", "unit"}
=============================================================================
