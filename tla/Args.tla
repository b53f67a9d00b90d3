-------------------------------- MODULE Args --------------------------------
(***************************************************************************)
(* The checks of kernel/syscall.c on what a process passes to a system     *)
(* call.  The process has memory from 0 up to top; W is the number of      *)
(* addresses, 2^32, and a sum wraps there.  KERNBASE is half of it.        *)
(***************************************************************************)
EXTENDS Integers

(* fetchint(), of an int that takes n bytes                                *)
Fetchint(W, top, a, n) == ~(a >= top \/ (a + n) % W > top)

(* argint(): the k-th argument, above the return address                   *)
Argint(W, top, esp, k, n) == Fetchint(W, top, (esp + n + n * k) % W, n)

(* argptr(); a size from W/2 on is a negative int                          *)
Argptr(W, top, i, size) == ~(2 * size >= W \/ i >= top \/ (i + size) % W > top)

(* fetchstr() looks at the bytes from a up to the first NUL or to top      *)
Fetchstr(top, a) == a < top
=============================================================================
