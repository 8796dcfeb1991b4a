-------------------------- MODULE MCFrameAllocator --------------------------
(* Four whole frames, 3 .. 6, with a ragged byte range around them so that *)
(* both roundings of init_frame_allocator matter.                          *)
EXTENDS FrameAllocator

MCFmStart == 2 * 4096 + 1
MCFmEnd   == 7 * 4096 + 4095

\* The range of a PC with a hole below 16 MiB and less memory above it: the
\* longest region is 1 .. 15 MiB, and the kernel image of linker.ld ends at
\* 20 MiB (FREEMEMORY_START).
HoleFmStart == 20 * 1048576
HoleFmEnd   == 15 * 1048576
=============================================================================
