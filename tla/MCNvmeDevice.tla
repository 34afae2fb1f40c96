--------------------------- MODULE MCNvmeDevice -----------------------------
(* One controller with two I/O queues, taken down twice.                    *)
EXTENDS NvmeDevice
=============================================================================
