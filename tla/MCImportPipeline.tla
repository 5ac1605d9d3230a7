-------------------------- MODULE MCImportPipeline --------------------------
(* Small instances of ImportPipeline. *)
EXTENDS ImportPipeline

CONSTANTS a, b, txt, t1, t2

MCFiles == {a, b, txt}
MCUnsupported == {txt}
OneThread == {t1}
TwoThreads == {t1, t2}
ViewOnly == {"view"}
RendererOnly == {"renderer"}
RendererAndWindow == {"renderer", "window"}

\* A file alone, two files, a file of another type at the end, no file.
MCSelections == {<<a>>, <<a, b>>, <<b, txt>>, <<>>}
ShortSelections == {<<a>>, <<b, a>>, <<>>}
OneFile == {<<a>>}
=============================================================================
