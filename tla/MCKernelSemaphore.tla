------------------------- MODULE MCKernelSemaphore -------------------------
(* The instance of KernelSemaphore that KernelSemaphore.cfg checks.           *)
EXTENDS KernelSemaphore
=============================================================================
