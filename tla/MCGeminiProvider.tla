-------------------------- MODULE MCGeminiProvider --------------------------
(* Instances of GeminiProvider for TLC.                                    *)
EXTENDS GeminiProvider

CONSTANTS flashLite, flash

\* The default chain: gemini_model and one fallback.
MCChain == <<flashLite, flash>>
=============================================================================
