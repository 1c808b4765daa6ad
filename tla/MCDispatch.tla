----------------------------- MODULE MCDispatch -----------------------------
EXTENDS Dispatch, TLC
MCTexts == {{}, {"approval"}, {"status"}, {"codex"}, {"codex", "codex_empty"}, {"codex", "hermes"},
            {"codex", "code"}, {"hermes"}, {"local", "gui"}, {"code", "gui"}, {"gui"}, {"long"}}
=============================================================================
