------------------------------- MODULE Patches ------------------------------
(***************************************************************************)
(* The wrapper's patches of Onyx, as PatchInstall installs them: what each *)
(* does to upstream, and the order in which each service installs them.    *)
(***************************************************************************)
EXTENDS Naturals, Sequences, FiniteSets, SequencesExt

(* The optional patches; a malformed number or flag counts as off.          *)
Switches == {"max_tokens", "url_chars", "search_chars", "native_reasoning", "network",
             "dr_tools", "preserve", "native_tools", "continuation", "keep_results",
             "obscura", "freshness"}

(* The switches that are on where the environment says nothing, and those   *)
(* that the compose file turns on.                                          *)
CodeDefaults == {"native_reasoning", "dr_tools", "preserve", "native_tools",
                 "continuation", "freshness"}
ComposeDefaults == CodeDefaults \cup {"max_tokens", "url_chars", "keep_results"}

(* Operations.  "fail" is what happens when upstream has drifted, or the    *)
(* setting is invalid: "raise", or a warning (an error when strict) that    *)
(* skips the operation ("next") or the rest of the patch ("leave"), or that *)
(* cannot happen ("no").  "when" holds the switches it depends on.          *)
Op(kind, target, fail) == [kind |-> kind, on |-> target, fail |-> fail, when |-> {}]
Must        == Op("check", "", "raise")
May         == Op("check", "", "leave")
Setting     == Op("setting", "", "raise")
TrySetting  == Op("setting", "", "leave")
DefaultedSetting == Op("setting", "", "next")
Source(f)   == Op("source", f, "next")
Rebuild(f)  == Op("rebuild", f, "raise")
Wrap(f)     == Op("wrap", f, "no")
TryWrap(f)  == Op("wrap", f, "next")
Set(c)      == Op("set", c, "next")
Both(c)     == Op("both", c, "leave")
Fix(c)      == Op("fix", c, "raise")
Import(m)   == Op("import", m, "no")
Capture     == Op("capture", "normalize_url", "no")
Validate    == Op("validate", "", "raise")

Given(switch, value, ops) ==
    [i \in DOMAIN ops |->
       [ops[i] EXCEPT !.when = @ \cup {[switch |-> switch, is |-> value]}]]
If(switch, ops) == Given(switch, "on", ops)
Unless(switch, ops) == Given(switch, "off", ops)
Patch(name, ops) == [name |-> name, ops |-> ops]

(* Which module imported each constant by name. *)
Consumer == [citation |-> "prompt_utils", open_urls |-> "prompt_utils",
             python_guidance |-> "prompt_utils", orchestrator |-> "dr_loop",
             research_prompt |-> "research_agent", open_urls_tool |-> "research_agent",
             coding_prompt |-> "coding_agent"]
Constants == DOMAIN Consumer
Stable == Constants \ {"python_guidance"}
Loops == {"run_llm_loop", "run_deep_research_llm_loop"}
Modules == {Consumer[c] : c \in Constants} \cup {"process_message"}

-----------------------------------------------------------------------------
(* The patches, by the module that holds them. *)

EmbeddingTokenizer == Patch("embedding_tokenizer", <<May, Wrap("tokenizer_init")>>)

LlmMaxTokens == Patch("max_tokens", <<May>> \o If("max_tokens",
    <<May, Source("llm_from_provider"), Wrap("max_input_tokens")>>))

OpenUrlChars == Patch("open_url_chars", If("url_chars",
    <<TryWrap("truncate_content"), May, TryWrap("convert_sections")>>))

InferenceProxy == Patch("inference_proxy",
    <<Setting, May, Wrap("llm_init"), Wrap("llm_completion"), Wrap("models_response")>>)

DisplayNames == Patch("display_names", <<Must, Wrap("model_response"), Wrap("model_view")>>)

McpEgress == Patch("mcp_egress", <<Setting, May, Wrap("mcp_factories")>>)

McpResults == Patch("mcp_results",
    <<Must, Rebuild("mcp_run"), Rebuild("mcp_packets"), Wrap("process_mcp_result")>>)

PlaywrightProxy == Patch("playwright_proxy", <<TrySetting, May, Wrap("sync_playwright")>>)

GithubEgress == Patch("github_egress", <<Setting, Must, Wrap("github_get")>>)

SearchContext == Patch("search_context", If("search_chars", <<May, Wrap("convert_sections")>>))

NativeReasoning == Patch("native_reasoning", If("native_reasoning",
    <<May, Wrap("model_is_reasoning_model")>>))

FileLinkPrompt == Patch("file_link_prompt",
    <<Set("python_description"), Set("python_guidance"), TryWrap("python_run")>>)

PackageCapability == Patch("packages", <<Set("python_description"), Set("python_guidance")>>)

NetworkDescription == Patch("network", If("network",
    <<Set("python_description"), Set("python_guidance"), Set("bash_description"),
      Set("mock_bash_description"), Set("coding_prompt")>>))

AutoToolChoice == Patch("auto_tool_choice",
    <<Import("dr_loop"), Import("coding_agent"), Import("research_agent"),
      TryWrap("coding_step"), TryWrap("dr_step"), TryWrap("research_step"),
      TryWrap("llm_step")>>)

ChatAgentTools == Patch("chat_agent_tools",
    <<DefaultedSetting, TrySetting, May, Import("dr_loop"), Import("research_agent"),
      Both("research_prompt")>>
    \o If("dr_tools",
          <<May, Wrap("parallel_runner"), May, Wrap("coding_tool_run"),
            Source("run_deep_research_llm_loop"), Source("run_research_agent_call")>>))

ReasoningPreservation == Patch("reasoning",
    <<Source("construct_message_history")>>
    \o If("preserve",
          <<May, Wrap("set_reasoning_tokens"), Wrap("litellm_transform"),
            Wrap("httpx_send"), Wrap("structured_message"), Wrap("prompt_to_dicts"),
            Wrap("convert_chat_history"), Source("run_llm_loop")>>
          \o Unless("dr_tools",
                <<Source("run_deep_research_llm_loop"), Source("run_research_agent_call")>>)
          \o <<Source("run_coding_agent_call")>>))

NativeToolCalls == Patch("native_tools", If("native_tools",
    <<May, Wrap("tool_fallback"), Wrap("xml_filter")>>))

Continuation == Patch("continuation", If("continuation", <<May, Wrap("llm_stream")>>))

FinalAnswer == Patch("final_answer",
    <<Import("coding_agent"), May, Wrap("generate_final_answer")>>)

KeepToolResults == Patch("keep_results", If("keep_results",
    <<May, Wrap("tool_response_helper"), Wrap("convert_chat_history")>>))

FileLinkEnforcement == Patch("file_links",
    <<May, Source("run_llm_loop"), May, Wrap("llm_step"),
      May, Source("translate_assistant_message")>>)

OutputLimit == Patch("output_limit",
    <<Import("dr_loop"), Import("research_agent"),
      Must, Source("run_deep_research_llm_loop"), Must, Source("run_research_agent_call"),
      Must, Wrap("report_limits")>>)

PromptStability == Patch("prompt_stability",
    <<Import("prompt_utils"), Import("dr_loop"), Import("research_agent"),
      Import("coding_agent"), Rebuild("run_llm_loop"), Fix("citation"),
      Rebuild("run_deep_research_llm_loop"), Rebuild("run_research_agent_call"),
      Fix("open_urls"), Fix("orchestrator"), Fix("research_prompt"),
      Fix("open_urls_tool"), Fix("coding_prompt")>>)

ChatFileId == Patch("chat_file_id", <<May, Source("get_user_file_by_id")>>)
SearxngSingleAttempt == Patch("single_attempt", <<May, Wrap("searxng_search")>>)
SearxngProbe == Patch("probe", <<May, Wrap("searxng_test")>>)
ReconnectStatus == Patch("reconnect_status", <<Must, Wrap("reconnect_route")>>)

UrlIdentity == Patch("url_identity", <<Must, Wrap("normalize_url")>>)

FailureReporting == Patch("failure_reporting",
    <<Must, Wrap("open_url_run"), Wrap("open_url_merge")>>)

UrlLimit == Patch("url_limit", <<Must, Wrap("open_url_run"), Wrap("open_url_definition")>>)

ObscuraCrawler == Patch("obscura_crawler", <<Setting>> \o If("obscura",
    <<Setting, Capture, Must, Wrap("open_url_run"), Wrap("fetch_web_content"),
      Wrap("open_url_merge"), Wrap("crawler_contents")>>))

BuiltinCrawler == Patch("builtin_crawler", Unless("obscura",
    <<Setting, Must, Wrap("crawler_contents")>>))

StabilityCheck == Patch("validate", <<Import("process_message"), Validate>>)

SleepyBackground == Patch("sleepy", <<May, Wrap("beat_schedule")>>)
WebConnectorEgress == Patch("connector_egress",
    <<May, Setting, Wrap("session_request"), Wrap("protected_url_check"),
      Must, Wrap("connector_init"), Must, Wrap("connector_load")>>)
HttpFreshness == Patch("freshness", If("freshness",
    <<May, Must, Wrap("get_docs_to_update"), Wrap("do_scrape")>>))

-----------------------------------------------------------------------------
(* The installation order of each service. *)
ApiOrder ==
    <<EmbeddingTokenizer, LlmMaxTokens, OpenUrlChars, InferenceProxy, DisplayNames,
      McpEgress, McpResults, PlaywrightProxy, GithubEgress, SearchContext,
      NativeReasoning, FileLinkPrompt, PackageCapability, NetworkDescription,
      AutoToolChoice, ChatAgentTools, ReasoningPreservation, NativeToolCalls,
      Continuation, FinalAnswer, KeepToolResults, FileLinkEnforcement, OutputLimit,
      PromptStability, ChatFileId, SearxngSingleAttempt, SearxngProbe, ReconnectStatus,
      UrlIdentity, FailureReporting, UrlLimit, ObscuraCrawler, BuiltinCrawler,
      StabilityCheck>>

BackgroundOrder ==
    <<EmbeddingTokenizer, SleepyBackground, PlaywrightProxy, InferenceProxy,
      WebConnectorEgress, HttpFreshness>>

(* Background steps whose own except clause keeps a lenient start going. *)
Guarded == {"embedding_tokenizer", "sleepy", "playwright_proxy", "inference_proxy"}

(* Every upstream function some patch replaces. *)
Functions == {op.on : op \in UNION {Range(p.ops) : p \in Range(ApiOrder \o BackgroundOrder)}}
=============================================================================
